---------------------------- MODULE Spec2Model ----------------------------
(***************************************************************************)
(* A model of Oops.js (src/src/Oops.js): the undo/redo manager `Oops` and  *)
(* its CompositeCommand.  The engine is single-threaded and synchronous,   *)
(* so every public method is one atomic step.  The methods are written as  *)
(* operators over a record `e` holding the instance's fields (`this`);     *)
(* each returns a record [eng, thrown, ret]: the instance afterwards,      *)
(* whether the call threw to its caller, and what it returned.             *)
(***************************************************************************)
EXTENDS Integers, Sequences, FiniteSets, TLC

(***************************************************************************)
(* Bounds of the model.                                                    *)
(***************************************************************************)
MaxGroup == 2      \* most commands recorded in one transaction group
MaxDepth == 2      \* deepest nesting of open transactions
MaxCmds == 3       \* most commands an application keeps in the stacks and open groups
MaxTicks == 1      \* how far the clock advances past Epoch
MaxSteps == 2      \* largest `steps` passed to undo and redo
MaxSnapshots == 2  \* most entries kept in the snapshots map
MaxFaultCmds == 2  \* MaxCmds of the application whose commands fail
Epoch == 2000      \* Date.now() at construction; larger than any finite mergeWindow

(***************************************************************************)
(* Program constants.                                                      *)
(***************************************************************************)
Infinity == 1000000   \* larger than every length and every reading of the clock
DefaultSnapshotInterval == 10
DefaultCompressThreshold == 100
DefaultMergeWindow == 1000
Null == 0          \* null / undefined / absent number: falsy in `a || b`

(***************************************************************************)
(* Commands.  A command is an object the caller supplies; the engine only  *)
(* calls execute, undo, serialize and, when present, canMerge and merge.   *)
(*   type "A"  no canMerge (the mocks of test/oops.test.js)                *)
(*   type "M"  canMerge(other) iff other is an "M"                         *)
(*   type "N"  canMerge(other) iff other is an "M" or an "N"               *)
(*   type "Y"  no canMerge, undo() throws                                  *)
(*   type "X"  no canMerge, execute() throws                               *)
(*   type "R"  no canMerge; execute() and undo() call back into the engine *)
(*             (lo = 1: execute(A1), lo = 2: undo(), lo = 3: redo())       *)
(*   type "CompositeCommand"  the engine's own class                       *)
(* lo..hi is the command's data: the range of edits it stands for; merge   *)
(* returns a command of the receiver's type covering both ranges, from the *)
(* argument's lo to the receiver's hi (merge is not commutative).          *)
(***************************************************************************)
Leaf(t, i) == [type |-> t, lo |-> i, hi |-> i, commands |-> <<>>]

CompositeCommand(cmds) ==
    [type |-> "CompositeCommand", lo |-> 0, hi |-> 0, commands |-> cmds]

IsComposite(c) == c.type = "CompositeCommand"

\* `command.canMerge &&`: whether the object has a canMerge method
HasCanMerge(c) == c.type \in {"M", "N", "CompositeCommand"}

\* c.canMerge(other)
canMerge(c, other) ==
    CASE c.type = "M" -> other.type = "M"
      [] c.type = "N" -> other.type \in {"M", "N"}
      [] OTHER -> FALSE

\* c.merge(other)
merge(c, other) == [type |-> c.type, lo |-> other.lo, hi |-> c.hi, commands |-> <<>>]

ThrowsOnExecute(c) == c.type = "X"
ThrowsOnUndo(c) == c.type = "Y"
Reenters(c) == c.type = "R"

(***************************************************************************)
(* Sequence helpers (Array.prototype).                                     *)
(***************************************************************************)
Last(s) == s[Len(s)]
Front(s) == SubSeq(s, 1, Len(s) - 1)
Map(s, F(_)) == [i \in 1..Len(s) |-> F(s[i])]

(***************************************************************************)
(* Results of a call.                                                      *)
(***************************************************************************)
Return(e, v) == [eng |-> e, thrown |-> FALSE, ret |-> v]
Throw(e) == [eng |-> e, thrown |-> TRUE, ret |-> "undefined"]

\* the log of calls the engine made on commands and listeners
Log(e, ev) == [e EXCEPT !.calls = Append(@, ev)]

(***************************************************************************)
(* command.execute() and command.undo().  A leaf's call is logged; a       *)
(* CompositeCommand runs its sub-commands in order (execute) or in reverse *)
(* order (undo) and stops at the first one that throws.                    *)
(***************************************************************************)
RECURSIVE execute(_, _, _, _, _)
RECURSIVE undo(_, _)
RECURSIVE redo(_, _)
RECURSIVE beginTransaction(_)
RECURSIVE commitTransaction(_, _)
RECURSIVE abortTransaction(_)
RECURSIVE clear(_)
RECURSIVE recoverFromSnapshot(_)
RECURSIVE exportState(_)
RECURSIVE importState(_, _)
RECURSIVE NestedCall(_, _)

\* a call back into the engine from the body of a command or of a listener,
\* inside try/catch; the body notes what the call returned
Noted(e, i, r) ==
    Log(r.eng, [call |-> "nested", op |-> i, busy |-> e.isExecuting,
                ret |-> r.ret, thrown |-> r.thrown, changed |-> r.eng # e])

NestedCall(e, i) ==
    Noted(e, i, CASE i = 1 -> execute(e, [cmd |-> Leaf("A", 1)], FALSE, TRUE, Epoch)
                  [] i = 2 -> undo(e, 1)
                  [] i = 3 -> redo(e, 1)
                  [] i = 4 -> commitTransaction(e, Epoch)
                  [] i = 5 -> importState(e, exportState(e))
                  [] i = 6 -> clear(e)
                  [] i = 7 -> recoverFromSnapshot(e)
                  [] i = 8 -> beginTransaction(e)
                  [] OTHER -> abortTransaction(e))

RECURSIVE cmdExecute(_, _)

\* CompositeCommand.execute running its sub-commands last to first
RECURSIVE executeAllBackwards(_, _, _)
executeAllBackwards(e, cmds, i) ==
    IF i > Len(cmds) THEN Return(e, "undefined")
    ELSE LET r == cmdExecute(e, cmds[Len(cmds) + 1 - i])
         IN  IF r.thrown THEN r ELSE executeAllBackwards(r.eng, cmds, i + 1)

RECURSIVE executeAll(_, _, _)
executeAll(e, cmds, i) ==
    IF i > Len(cmds) THEN Return(e, "undefined")
    ELSE LET r == cmdExecute(e, cmds[i])
         IN  IF r.thrown THEN r ELSE executeAll(r.eng, cmds, i + 1)

cmdExecute(e, c) ==
    IF IsComposite(c) THEN executeAll(e, c.commands, 1)
    ELSE LET e1 == Log(e, [call |-> "execute", cmd |-> c])
         IN  IF ThrowsOnExecute(c) THEN Throw(e1)
             ELSE IF Reenters(c) THEN Return(NestedCall(e1, c.lo), "result")
             ELSE Return(e1, "result")

RECURSIVE cmdUndo(_, _)
RECURSIVE undoAll(_, _, _)
undoAll(e, cmds, i) ==
    IF i < 1 THEN Return(e, "undefined")
    ELSE LET r == cmdUndo(e, cmds[i])
         IN  IF r.thrown THEN r ELSE undoAll(r.eng, cmds, i - 1)

\* undo() of the sub-commands in recorded order instead of reverse order
RECURSIVE undoEach(_, _, _)
undoEach(e, cmds, i) ==
    IF i > Len(cmds) THEN Return(e, "undefined")
    ELSE LET r == cmdUndo(e, cmds[i])
         IN  IF r.thrown THEN r ELSE undoEach(r.eng, cmds, i + 1)

cmdUndoInOrder(e, c) ==
    IF IsComposite(c) THEN undoEach(e, c.commands, 1)
    ELSE LET e1 == Log(e, [call |-> "undo", cmd |-> c])
         IN  IF ThrowsOnUndo(c) THEN Throw(e1)
             ELSE IF Reenters(c) THEN Return(NestedCall(e1, c.lo), "undefined")
             ELSE Return(e1, "undefined")

cmdUndo(e, c) ==
    IF IsComposite(c) THEN undoAll(e, c.commands, Len(c.commands))
    ELSE LET e1 == Log(e, [call |-> "undo", cmd |-> c])
         IN  IF ThrowsOnUndo(c) THEN Throw(e1)
             ELSE IF Reenters(c) THEN Return(NestedCall(e1, c.lo), "undefined")
             ELSE Return(e1, "undefined")

(***************************************************************************)
(* command.serialize() and the registry's factories.  A serialized command *)
(* is {type, data}; a leaf's data is its range, a CompositeCommand's data  *)
(* is the list of its serialized sub-commands (field `items`).             *)
(***************************************************************************)
RECURSIVE serialize(_)
serialize(c) ==
    IF IsComposite(c)
    THEN [type |-> "CompositeCommand",
          data |-> [lo |-> 0, hi |-> 0,
                    items |-> [i \in 1..Len(c.commands) |-> serialize(c.commands[i])]]]
    ELSE [type |-> c.type, data |-> [lo |-> c.lo, hi |-> c.hi, items |-> <<>>]]

\* factory(data) of the factory registered under `name`: a leaf of that type
\* built from the data; factory() with no data builds the type's default
NoData == [lo |-> 0, hi |-> 0, items |-> <<>>]
factory(name, data) == [type |-> name, lo |-> data.lo, hi |-> data.hi, commands |-> <<>>]


(***************************************************************************)
(* Oops: getters and the notifier.                                         *)
(***************************************************************************)
canUndo(e) == Len(e.undoStack) > 0
canRedo(e) == Len(e.redoStack) > 0

\* addChangeListener / removeChangeListener: changeListeners is a Set, kept
\* here in insertion order without duplicates
addChangeListener(e, listener) ==
    IF \E i \in 1..Len(e.changeListeners) : e.changeListeners[i] = listener
    THEN Return(e, "undefined")
    ELSE Return([e EXCEPT !.changeListeners = Append(@, listener)], "undefined")

removeChangeListener(e, listener) ==
    Return([e EXCEPT !.changeListeners = SelectSeq(@, LAMBDA l : l # listener)],
           "undefined")

\* notifyListeners(): the state object is built once and handed to every
\* listener in turn.  The listener "observer" only looks at it; "meddler"
\* calls undo() on the engine.
RECURSIVE notifyEach(_, _, _)
notifyEach(e, state, i) ==
    IF i > Len(e.changeListeners) THEN e
    ELSE LET listener == e.changeListeners[i]
             e1 == Log(e, [call |-> "notify", listener |-> listener, state |-> state])
         IN  notifyEach(IF listener = "meddler" THEN NestedCall(e1, 2) ELSE e1,
                        state, i + 1)

notifyListeners(e) ==
    notifyEach(e, [canUndo |-> canUndo(e), canRedo |-> canRedo(e),
                   undoStackSize |-> Len(e.undoStack),
                   redoStackSize |-> Len(e.redoStack)], 1)

(***************************************************************************)
(* Snapshots: a Map from undo-stack length to the serialized stacks.       *)
(***************************************************************************)
MapSet(m, k, v) == [x \in (DOMAIN m) \cup {k} |-> IF x = k THEN v ELSE m[x]]
EmptyMap == [x \in {} |-> 0]

\* a snapshot stored under the number of entries of both stacks
createSnapshotKeyedByTotal(e) ==
    LET snapshot == [undoStack |-> Map(e.undoStack, serialize),
                     redoStack |-> Map(e.redoStack, serialize)]
    IN  Log([e EXCEPT !.snapshots =
                 MapSet(@, Len(e.undoStack) + Len(e.redoStack), snapshot)],
            [call |-> "createSnapshot", depth |-> Len(e.undoStack)])

createSnapshot(e) ==
    LET snapshot == [undoStack |-> Map(e.undoStack, serialize),
                     redoStack |-> Map(e.redoStack, serialize)]
    IN  Log([e EXCEPT !.snapshots = MapSet(@, Len(e.undoStack), snapshot)],
            [call |-> "createSnapshot", depth |-> Len(e.undoStack)])

\* deserializeCommand throws when the type has no registered factory
CanDeserialize(e, serializedCmd) == serializedCmd.type \in e.commandFactories
deserializeCommand(e, serializedCmd) == factory(serializedCmd.type, serializedCmd.data)

\* array.map(cmd => this.deserializeCommand(cmd)): throws if any element does
MapThrows(e, sers) == \E i \in 1..Len(sers) : ~CanDeserialize(e, sers[i])
MapDeserialize(e, sers) == [i \in 1..Len(sers) |-> deserializeCommand(e, sers[i])]

\* the greatest stored depth that is <= the undo-stack length (0 keys: none)
Max(S) == CHOOSE x \in S : \A y \in S : y <= x
\* every stored depth, whatever the length of the undo stack
StoredKeys(e) == DOMAIN e.snapshots
QualifyingKeys(e) == {k \in DOMAIN e.snapshots : k <= Len(e.undoStack)}

recoverFromSnapshot(e) ==
    IF QualifyingKeys(e) = {} THEN Return(notifyListeners(e), "undefined")
    ELSE LET snapshot == e.snapshots[Max(QualifyingKeys(e))]
         IN  IF MapThrows(e, snapshot.undoStack) THEN Throw(e)
             ELSE LET e1 == [e EXCEPT !.undoStack = MapDeserialize(e, snapshot.undoStack)]
                  IN  IF MapThrows(e, snapshot.redoStack) THEN Throw(e1)
                      ELSE Return(notifyListeners(
                               [e1 EXCEPT !.redoStack = MapDeserialize(e, snapshot.redoStack)]),
                               "undefined")

(***************************************************************************)
(* compressHistory(): fold the undo stack from the oldest entry; the       *)
(* accumulator (currentGroup) asks canMerge of the next command and merges *)
(* it.  An accumulator without a canMerge method makes the call throw a    *)
(* TypeError before the stack is replaced.                                 *)
(***************************************************************************)
RECURSIVE compressLoop(_, _, _, _, _)
compressLoop(e, i, compressedStack, hasGroup, currentGroup) ==
    IF i > Len(e.undoStack)
    THEN Return([e EXCEPT !.undoStack =
                     IF hasGroup THEN Append(compressedStack, currentGroup)
                     ELSE compressedStack], "undefined")
    ELSE LET command == e.undoStack[i]
         IN  IF ~hasGroup THEN compressLoop(e, i + 1, compressedStack, TRUE, command)
             ELSE IF ~HasCanMerge(currentGroup) THEN Throw(e)
             ELSE LET e1 == Log(e, [call |-> "canMerge", cmd |-> currentGroup, arg |-> command])
                  IN  IF canMerge(currentGroup, command)
                      THEN compressLoop(
                               Log(e1, [call |-> "merge", cmd |-> currentGroup, arg |-> command]),
                               i + 1, compressedStack, TRUE, merge(currentGroup, command))
                      ELSE compressLoop(e1, i + 1, Append(compressedStack, currentGroup),
                                        TRUE, command)

compressHistory(e) == compressLoop(e, 1, <<>>, FALSE, Leaf("A", 0))

(***************************************************************************)
(* execute(command, {silent, undoable}).  `command` is [name |-> n] for a  *)
(* registered name or [cmd |-> c] for a command object; `now` is           *)
(* Date.now().  Every exit runs `finally { this.isExecuting = false }`.    *)
(***************************************************************************)
IsName(command) == "name" \in DOMAIN command

\* an exit that skips the finally block
FinallySkipped(r) == r

Finally(r) == [r EXCEPT !.eng.isExecuting = FALSE]

\* the merge test with a window that includes its end
MergeConditionInclusive(e, command, currentTime) ==
    /\ Len(e.undoStack) > 0
    /\ currentTime - e.lastExecutionTime <= e.mergeWindow
    /\ HasCanMerge(command)
    /\ canMerge(command, Last(e.undoStack))

\* lines 74-82: merge into the top entry, or push
MergeCondition(e, command, currentTime) ==
    /\ Len(e.undoStack) > 0
    /\ currentTime - e.lastExecutionTime < e.mergeWindow
    /\ HasCanMerge(command)
    /\ canMerge(command, Last(e.undoStack))

PushOrMerge(e, command, currentTime) ==
    IF MergeCondition(e, command, currentTime)
    THEN LET top == Last(e.undoStack)
             e1 == Log(Log(e, [call |-> "canMerge", cmd |-> command, arg |-> top]),
                       [call |-> "merge", cmd |-> command, arg |-> top])
         IN  [e1 EXCEPT !.undoStack = Append(Front(e.undoStack), merge(command, top))]
    ELSE LET asked == /\ Len(e.undoStack) > 0
                      /\ currentTime - e.lastExecutionTime < e.mergeWindow
                      /\ HasCanMerge(command)
             e1 == IF asked
                   THEN Log(e, [call |-> "canMerge", cmd |-> command,
                                arg |-> Last(e.undoStack)])
                   ELSE e
         IN  [e1 EXCEPT !.undoStack = Append(e.undoStack, command)]

\* eviction of the most recent entry instead of the oldest
EvictNewest(e) ==
    IF Len(e.undoStack) > e.maxStackSize
    THEN [e EXCEPT !.undoStack = Front(@)]
    ELSE e

\* lines 87-89: evict the oldest entry
Evict(e) ==
    IF Len(e.undoStack) > e.maxStackSize
    THEN [e EXCEPT !.undoStack = Tail(@)]
    ELSE e

\* lines 91-93: snapshot at every multiple of snapshotInterval
AutoSnapshot(e) ==
    IF Len(e.undoStack) % e.snapshotInterval = 0 THEN createSnapshot(e) ELSE e

\* lines 95-97: compress past compressThreshold
AutoCompress(e) ==
    IF Len(e.undoStack) > e.compressThreshold
    THEN compressHistory(e)
    ELSE Return(e, "undefined")

\* Record with the redo stack cleared only when a new entry is pushed
RecordKeepsRedoOnMerge(e, command, currentTime) ==
    LET e1 == PushOrMerge(e, command, currentTime)
        e2 == [e1 EXCEPT !.lastExecutionTime = currentTime,
                         !.redoStack = IF MergeCondition(e, command, currentTime)
                                       THEN @ ELSE <<>>]
    IN  AutoCompress(AutoSnapshot(Evict(e2)))

\* Record with the snapshot taken before the eviction
RecordSnapshotsBeforeEviction(e, command, currentTime) ==
    LET e1 == PushOrMerge(e, command, currentTime)
        e2 == [e1 EXCEPT !.lastExecutionTime = currentTime, !.redoStack = <<>>]
    IN  AutoCompress(Evict(AutoSnapshot(e2)))

\* lines 72-98
Record(e, command, currentTime) ==
    LET e1 == PushOrMerge(e, command, currentTime)
        e2 == [e1 EXCEPT !.lastExecutionTime = currentTime, !.redoStack = <<>>]
    IN  AutoCompress(AutoSnapshot(Evict(e2)))

\* lines 99-108: h is the result of recording the command that returned x
AfterRecord(x, h, silent) ==
    IF h.thrown THEN Finally(Throw(h.eng))
    ELSE Finally(Return(IF silent THEN h.eng ELSE notifyListeners(h.eng), x.ret))

\* lines 70-108: x is the result of command.execute()
AfterExecute(x, cmd, silent, undoable, now) ==
    IF x.thrown THEN Finally(Throw(x.eng))
    ELSE AfterRecord(x, IF undoable THEN Record(x.eng, cmd, now)
                        ELSE Return(x.eng, "undefined"), silent)

\* execute that records the command before it runs it
executeRecordsFirst(e, command, silent, undoable, now) ==
    IF e.isExecuting THEN Return(e, "undefined")
    ELSE LET e0 == [e EXCEPT !.isExecuting = TRUE]
             cmd == IF IsName(command) THEN factory(command.name, NoData)
                    ELSE command.cmd
             h == Record(e0, cmd, now)
             x == cmdExecute(h.eng, cmd)
         IN  IF x.thrown THEN Finally(Throw(x.eng))
             ELSE Finally(Return(IF silent THEN x.eng ELSE notifyListeners(x.eng),
                                 x.ret))

\* an execute that records a deferred command in the outermost open group
executeIntoOuterGroup(e, command, silent, undoable, now) ==
    IF e.isExecuting THEN Return(e, "undefined")
    ELSE LET e0 == [e EXCEPT !.isExecuting = TRUE]
         IN  IF IsName(command) /\ command.name \notin e.commandFactories
             THEN Finally(Throw(e0))
             ELSE LET cmd == IF IsName(command) THEN factory(command.name, NoData)
                             ELSE command.cmd
                  IN  IF Len(e0.transactionStack) > 0
                      THEN Finally(Return(
                               [e0 EXCEPT !.transactionStack[1] = Append(@, cmd)],
                               "undefined"))
                      ELSE AfterExecute(cmdExecute(e0, cmd), cmd, silent, undoable, now)

execute(e, command, silent, undoable, now) ==
    IF e.isExecuting THEN Return(e, "undefined")
    ELSE LET e0 == [e EXCEPT !.isExecuting = TRUE]
         IN  IF IsName(command) /\ command.name \notin e.commandFactories
             THEN Finally(Throw(e0))
             ELSE LET cmd == IF IsName(command) THEN factory(command.name, NoData)
                             ELSE command.cmd
                  IN  IF Len(e0.transactionStack) > 0
                      THEN Finally(Return(
                               [e0 EXCEPT !.transactionStack[Len(e0.transactionStack)] =
                                              Append(@, cmd)], "undefined"))
                      ELSE AfterExecute(cmdExecute(e0, cmd), cmd, silent, undoable, now)

(***************************************************************************)
(* undo(steps) and redo(steps).                                            *)
(***************************************************************************)
\* the loop of undo with push in place of unshift
RECURSIVE undoLoopPushes(_, _, _, _)
undoLoopPushes(e, i, steps, undoneCommands) ==
    IF i < steps /\ Len(e.undoStack) > 0
    THEN LET command == Last(e.undoStack)
             e1 == [e EXCEPT !.undoStack = Front(@)]
             r == cmdUndo(e1, command)
         IN  IF r.thrown THEN [r EXCEPT !.ret = undoneCommands]
             ELSE undoLoopPushes(r.eng, i + 1, steps, Append(undoneCommands, command))
    ELSE Return(e, undoneCommands)

\* the loop of undo putting the command whose undo() threw back on the stack
RECURSIVE undoLoopRestores(_, _, _, _)
undoLoopRestores(e, i, steps, undoneCommands) ==
    IF i < steps /\ Len(e.undoStack) > 0
    THEN LET command == Last(e.undoStack)
             e1 == [e EXCEPT !.undoStack = Front(@)]
             r == cmdUndo(e1, command)
         IN  IF r.thrown
             THEN [r EXCEPT !.ret = undoneCommands, !.eng.undoStack = Append(@, command)]
             ELSE undoLoopRestores(r.eng, i + 1, steps, <<command>> \o undoneCommands)
    ELSE Return(e, undoneCommands)

RECURSIVE undoLoop(_, _, _, _)
undoLoop(e, i, steps, undoneCommands) ==
    IF i < steps /\ Len(e.undoStack) > 0
    THEN LET command == Last(e.undoStack)
             e1 == [e EXCEPT !.undoStack = Front(@)]
             r == cmdUndo(e1, command)
         IN  IF r.thrown THEN [r EXCEPT !.ret = undoneCommands]
             ELSE undoLoop(r.eng, i + 1, steps, <<command>> \o undoneCommands)
    ELSE Return(e, undoneCommands)

\* undo without the test of isExecuting
undoUnguarded(e, steps) ==
    IF Len(e.undoStack) = 0 THEN Return(e, "undefined")
    ELSE LET r == undoLoop([e EXCEPT !.isExecuting = TRUE], 0, steps, <<>>)
         IN  IF r.thrown
             THEN Finally(recoverFromSnapshot(r.eng))
             ELSE Finally(Return(
                      notifyListeners([r.eng EXCEPT !.redoStack = @ \o r.ret]),
                      "undefined"))

\* undo that re-throws the command's error instead of recovering
undoRethrows(e, steps) ==
    IF e.isExecuting \/ Len(e.undoStack) = 0 THEN Return(e, "undefined")
    ELSE LET r == undoLoop([e EXCEPT !.isExecuting = TRUE], 0, steps, <<>>)
         IN  IF r.thrown
             THEN Finally(Throw(r.eng))
             ELSE Finally(Return(
                      notifyListeners([r.eng EXCEPT !.redoStack = @ \o r.ret]),
                      "undefined"))

undo(e, steps) ==
    IF e.isExecuting \/ Len(e.undoStack) = 0 THEN Return(e, "undefined")
    ELSE LET r == undoLoop([e EXCEPT !.isExecuting = TRUE], 0, steps, <<>>)
         IN  IF r.thrown
             THEN Finally(recoverFromSnapshot(r.eng))
             ELSE Finally(Return(
                      notifyListeners([r.eng EXCEPT !.redoStack = @ \o r.ret]),
                      "undefined"))

RECURSIVE redoLoop(_, _, _, _)
redoLoop(e, i, steps, redoneCommands) ==
    IF i < steps /\ Len(e.redoStack) > 0
    THEN LET command == Last(e.redoStack)
             e1 == [e EXCEPT !.redoStack = Front(@)]
             r == cmdExecute(e1, command)
         IN  IF r.thrown THEN [r EXCEPT !.ret = redoneCommands]
             ELSE redoLoop(r.eng, i + 1, steps, <<command>> \o redoneCommands)
    ELSE Return(e, redoneCommands)

redo(e, steps) ==
    IF e.isExecuting \/ Len(e.redoStack) = 0 THEN Return(e, "undefined")
    ELSE LET r == redoLoop([e EXCEPT !.isExecuting = TRUE], 0, steps, <<>>)
         IN  IF r.thrown
             THEN Finally(recoverFromSnapshot(r.eng))
             ELSE Finally(Return(
                      notifyListeners([r.eng EXCEPT !.undoStack = @ \o r.ret]),
                      "undefined"))

(***************************************************************************)
(* Transactions.                                                           *)
(***************************************************************************)
beginTransaction(e) ==
    Return([e EXCEPT !.transactionStack = Append(@, <<>>)], "undefined")

\* a commit that runs the group at once, whatever the nesting, and hands the
\* result to the enclosing group
commitTransactionEager(e, now) ==
    IF Len(e.transactionStack) = 0 THEN Return(e, "undefined")
    ELSE LET transaction == Last(e.transactionStack)
             e1 == [e EXCEPT !.transactionStack = Front(@)]
             command == IF Len(transaction) = 1 THEN transaction[1]
                        ELSE CompositeCommand(transaction)
         IN  IF Len(transaction) = 0 THEN Return(e1, "undefined")
             ELSE IF e1.transactionStack = <<>>
             THEN [execute(e1, [cmd |-> command], FALSE, TRUE, now)
                     EXCEPT !.ret = "undefined"]
             ELSE LET r == cmdExecute(e1, command)
                  IN  IF r.thrown THEN r
                      ELSE Return([r.eng EXCEPT
                                     !.transactionStack[Len(e1.transactionStack)] =
                                         Append(@, command)], "undefined")

\* a commit that leaves the group on the transaction stack when it fails
commitTransactionKeepsGroup(e, now) ==
    IF Len(e.transactionStack) = 0 THEN Return(e, "undefined")
    ELSE LET transaction == Last(e.transactionStack)
             e1 == [e EXCEPT !.transactionStack = Front(@)]
             r == IF Len(transaction) = 1
                  THEN execute(e1, [cmd |-> transaction[1]], FALSE, TRUE, now)
                  ELSE IF Len(transaction) > 1
                  THEN execute(e1, [cmd |-> CompositeCommand(transaction)], FALSE, TRUE, now)
                  ELSE Return(e1, "undefined")
         IN  IF r.thrown THEN [r EXCEPT !.eng.transactionStack = e.transactionStack]
             ELSE [r EXCEPT !.ret = "undefined"]

commitTransaction(e, now) ==
    IF Len(e.transactionStack) = 0 THEN Return(e, "undefined")
    ELSE LET transaction == Last(e.transactionStack)
             e1 == [e EXCEPT !.transactionStack = Front(@)]
             r == IF Len(transaction) = 1
                  THEN execute(e1, [cmd |-> transaction[1]], FALSE, TRUE, now)
                  ELSE IF Len(transaction) > 1
                  THEN execute(e1, [cmd |-> CompositeCommand(transaction)], FALSE, TRUE, now)
                  ELSE Return(e1, "undefined")
         IN  [r EXCEPT !.ret = "undefined"]

\* an abort that undoes the group in recorded order
abortTransactionInOrder(e) ==
    IF Len(e.transactionStack) = 0 THEN Return(e, "undefined")
    ELSE undoEach([e EXCEPT !.transactionStack = Front(@)],
                  Last(e.transactionStack), 1)

abortTransaction(e) ==
    IF Len(e.transactionStack) = 0 THEN Return(e, "undefined")
    ELSE LET transaction == Last(e.transactionStack)
         IN  undoAll([e EXCEPT !.transactionStack = Front(@)], transaction,
                     Len(transaction))

(***************************************************************************)
(* registerCommand, clear.                                                 *)
(***************************************************************************)
registerCommand(e, name) ==
    Return([e EXCEPT !.commandFactories = @ \cup {name}], "undefined")

clear(e) ==
    Return(notifyListeners([e EXCEPT !.undoStack = <<>>, !.redoStack = <<>>,
                                     !.snapshots = EmptyMap]), "undefined")

(***************************************************************************)
(* exportState / importState and their JSON wrappers.  JSON.stringify      *)
(* writes Infinity as null; JSON.parse reads it back as null.              *)
(***************************************************************************)
exportState(e) ==
    [undoStack |-> Map(e.undoStack, serialize),
     redoStack |-> Map(e.redoStack, serialize),
     maxStackSize |-> e.maxStackSize,
     snapshotInterval |-> e.snapshotInterval,
     compressThreshold |-> e.compressThreshold,
     mergeWindow |-> e.mergeWindow]

\* `a || b` on numbers
OrElse(a, b) == IF a = Null THEN b ELSE a

\* `!state || typeof state !== 'object'`
IsObject(state) == "undoStack" \in DOMAIN state

\* an import that loads the redo stack from the state's undo stack
importStateCopiesUndo(e, state) ==
    IF ~IsObject(state) THEN Throw(e)
    ELSE IF MapThrows(e, state.undoStack) THEN Throw(e)
    ELSE Return(notifyListeners(
             [e EXCEPT !.undoStack = MapDeserialize(e, state.undoStack),
                       !.redoStack = MapDeserialize(e, state.undoStack),
                       !.maxStackSize = OrElse(state.maxStackSize, @),
                       !.snapshotInterval = OrElse(state.snapshotInterval, @),
                       !.compressThreshold = OrElse(state.compressThreshold, @),
                       !.mergeWindow = OrElse(state.mergeWindow, @),
                       !.isExecuting = FALSE,
                       !.lastExecutionTime = 0,
                       !.transactionStack = <<>>,
                       !.snapshots = EmptyMap]), "undefined")

\* an import that leaves the time of the last execute as it is
importStateKeepsTime(e, state) ==
    IF ~IsObject(state) THEN Throw(e)
    ELSE IF MapThrows(e, state.undoStack) THEN Throw(e)
    ELSE LET e1 == [e EXCEPT !.undoStack = MapDeserialize(e, state.undoStack)]
         IN  IF MapThrows(e, state.redoStack) THEN Throw(e1)
             ELSE Return(notifyListeners(
                      [e1 EXCEPT !.redoStack = MapDeserialize(e, state.redoStack),
                                 !.maxStackSize = OrElse(state.maxStackSize, @),
                                 !.snapshotInterval = OrElse(state.snapshotInterval, @),
                                 !.compressThreshold = OrElse(state.compressThreshold, @),
                                 !.mergeWindow = OrElse(state.mergeWindow, @),
                                 !.isExecuting = FALSE,
                                 !.transactionStack = <<>>,
                                 !.snapshots = EmptyMap]), "undefined")

\* an import that assigns nothing unless both arrays deserialize
importStateAtomic(e, state) ==
    IF ~IsObject(state) THEN Throw(e)
    ELSE IF MapThrows(e, state.undoStack) \/ MapThrows(e, state.redoStack) THEN Throw(e)
    ELSE Return(notifyListeners(
             [e EXCEPT !.undoStack = MapDeserialize(e, state.undoStack),
                       !.redoStack = MapDeserialize(e, state.redoStack),
                       !.maxStackSize = OrElse(state.maxStackSize, @),
                       !.snapshotInterval = OrElse(state.snapshotInterval, @),
                       !.compressThreshold = OrElse(state.compressThreshold, @),
                       !.mergeWindow = OrElse(state.mergeWindow, @),
                       !.isExecuting = FALSE,
                       !.lastExecutionTime = 0,
                       !.transactionStack = <<>>,
                       !.snapshots = EmptyMap]), "undefined")

importState(e, state) ==
    IF ~IsObject(state) THEN Throw(e)
    ELSE IF MapThrows(e, state.undoStack) THEN Throw(e)
    ELSE LET e1 == [e EXCEPT !.undoStack = MapDeserialize(e, state.undoStack)]
         IN  IF MapThrows(e, state.redoStack) THEN Throw(e1)
             ELSE Return(notifyListeners(
                      [e1 EXCEPT !.redoStack = MapDeserialize(e, state.redoStack),
                                 !.maxStackSize = OrElse(state.maxStackSize, @),
                                 !.snapshotInterval = OrElse(state.snapshotInterval, @),
                                 !.compressThreshold = OrElse(state.compressThreshold, @),
                                 !.mergeWindow = OrElse(state.mergeWindow, @),
                                 !.isExecuting = FALSE,
                                 !.lastExecutionTime = 0,
                                 !.transactionStack = <<>>,
                                 !.snapshots = EmptyMap]), "undefined")

JSONNumber(n) == IF n = Infinity THEN Null ELSE n

JSONStringify(state) ==
    [text |-> [state EXCEPT !.maxStackSize = JSONNumber(@),
                            !.snapshotInterval = JSONNumber(@),
                            !.compressThreshold = JSONNumber(@),
                            !.mergeWindow = JSONNumber(@)]]

JSONParse(json) == json.text

serializeState(e) == JSONStringify(exportState(e))

deserializeState(e, jsonState) == importState(e, JSONParse(jsonState))

(***************************************************************************)
(* The constructor.                                                        *)
(***************************************************************************)
New(options) ==
    [undoStack |-> <<>>,
     redoStack |-> <<>>,
     maxStackSize |-> OrElse(options.maxStackSize, Infinity),
     isExecuting |-> FALSE,
     changeListeners |-> <<>>,
     commandFactories |-> {},
     transactionStack |-> <<>>,
     snapshots |-> EmptyMap,
     snapshotInterval |-> OrElse(options.snapshotInterval, DefaultSnapshotInterval),
     compressThreshold |-> OrElse(options.compressThreshold, DefaultCompressThreshold),
     lastExecutionTime |-> 0,
     mergeWindow |-> OrElse(options.mergeWindow, DefaultMergeWindow),
     calls |-> <<>>]

(***************************************************************************)
(* The application: the options it constructs the manager with and the     *)
(* command objects it executes (`commands`); `capacity` bounds how many of  *)
(* them the exploration keeps in the stacks and open groups together.       *)
(***************************************************************************)
Apps ==
    { \* a bounded history of plain commands
      [options |-> [maxStackSize |-> 2, snapshotInterval |-> Null,
                    compressThreshold |-> Null, mergeWindow |-> Null],
       commands |-> {Leaf("A", 1), Leaf("A", 2), Leaf("A", 3)},
       listeners |-> <<"observer">>,
       capacity |-> MaxCmds],
      \* a bounded history with a snapshot at every second entry
      [options |-> [maxStackSize |-> 2, snapshotInterval |-> 2,
                    compressThreshold |-> Null, mergeWindow |-> Null],
       commands |-> {Leaf("A", 1), Leaf("A", 2)},
       listeners |-> <<"observer">>,
       capacity |-> MaxCmds],
      \* mergeable commands, merged within one tick
      [options |-> [maxStackSize |-> Null, snapshotInterval |-> Null,
                    compressThreshold |-> Null, mergeWindow |-> 1],
       commands |-> {Leaf("A", 1), Leaf("M", 1), Leaf("N", 2)},
       listeners |-> <<"observer">>,
       capacity |-> MaxCmds],
      \* history compressed past two entries
      [options |-> [maxStackSize |-> Null, snapshotInterval |-> Null,
                    compressThreshold |-> 2, mergeWindow |-> 1],
       commands |-> {Leaf("A", 1), Leaf("M", 1), Leaf("N", 2)},
       listeners |-> <<"observer">>,
       capacity |-> MaxCmds],
      \* the same with one command object and room for one more entry
      [options |-> [maxStackSize |-> Null, snapshotInterval |-> Null,
                    compressThreshold |-> 2, mergeWindow |-> 1],
       commands |-> {Leaf("M", 1)},
       listeners |-> <<"observer">>,
       capacity |-> MaxCmds + 1],
      \* a command whose undo fails
      [options |-> [maxStackSize |-> Null, snapshotInterval |-> 2,
                    compressThreshold |-> Null, mergeWindow |-> Null],
       commands |-> {Leaf("A", 1), Leaf("Y", 1)},
       listeners |-> <<"observer">>,
       capacity |-> MaxCmds] }

\* the applications whose history is saved and loaded
PersistApps ==
    { \* a bounded history; the factory of "N" is registered late
      [options |-> [maxStackSize |-> 2, snapshotInterval |-> Null,
                    compressThreshold |-> Null, mergeWindow |-> Null],
       commands |-> {Leaf("A", 1), Leaf("N", 2)},
       listeners |-> <<"observer">>,
       capacity |-> MaxCmds] }

\* failing commands, a snapshot at every second entry, "N" registered late
FailingApp ==
    [options |-> [maxStackSize |-> Null, snapshotInterval |-> 2,
                  compressThreshold |-> Null, mergeWindow |-> Null],
     commands |-> {Leaf("A", 1), Leaf("Y", 1), Leaf("X", 1), Leaf("N", 2)},
     listeners |-> <<"observer">>,
     capacity |-> MaxFaultCmds]

\* commands and a listener that call back into the engine
ReentrantApp ==
    [options |-> [maxStackSize |-> Null, snapshotInterval |-> Null,
                  compressThreshold |-> Null, mergeWindow |-> Null],
     commands |-> {Leaf("A", 1), Leaf("R", 1), Leaf("R", 2), Leaf("R", 3)},
     listeners |-> <<"observer", "meddler">>,
     capacity |-> MaxCmds]

\* commands that call commitTransaction, importState, clear,
\* recoverFromSnapshot, beginTransaction and abortTransaction from their
\* execute() and undo(), and a listener that calls undo()
NestingApp ==
    [options |-> [maxStackSize |-> Null, snapshotInterval |-> Null,
                  compressThreshold |-> Null, mergeWindow |-> Null],
     commands |-> {Leaf("A", 1), Leaf("R", 4), Leaf("R", 5), Leaf("R", 6), Leaf("R", 7),
                   Leaf("R", 8), Leaf("R", 9)},
     listeners |-> <<"observer", "meddler">>,
     capacity |-> MaxCmds]

\* transactions that record a command whose execute() throws
FailingGroupApp ==
    [options |-> [maxStackSize |-> Null, snapshotInterval |-> Null,
                  compressThreshold |-> Null, mergeWindow |-> Null],
     commands |-> {Leaf("A", 1), Leaf("A", 2), Leaf("X", 1)},
     listeners |-> <<"observer">>,
     capacity |-> MaxCmds + 1]

\* applications that load a saved history over a running session; one merges
\* whatever the time elapsed
ResetApps ==
    { [options |-> [maxStackSize |-> Null, snapshotInterval |-> 2,
                    compressThreshold |-> Null, mergeWindow |-> Infinity],
       commands |-> {Leaf("M", 1)},
       listeners |-> <<"observer">>,
       capacity |-> MaxCmds],
      [options |-> [maxStackSize |-> Null, snapshotInterval |-> 2,
                    compressThreshold |-> Null, mergeWindow |-> Null],
       commands |-> {Leaf("M", 1)},
       listeners |-> <<"observer">>,
       capacity |-> MaxCmds] }

Registered == {"A", "M", "Y", "X", "R"}   \* registered before the first command runs
LateNames == {"N"}                \* registered later, if at all
ExecNames == {"A", "Q"}           \* names passed to execute; "Q" is never registered

(***************************************************************************)
(* The state: the instance's fields, the application's command objects and *)
(* the clock.                                                              *)
(***************************************************************************)
VARIABLES undoStack, redoStack, maxStackSize, isExecuting, changeListeners,
          commandFactories,
          transactionStack, snapshots, snapshotInterval, compressThreshold,
          lastExecutionTime, mergeWindow, commands, capacity, now

fields == <<undoStack, redoStack, maxStackSize, isExecuting, changeListeners,
            commandFactories,
            transactionStack, snapshots, snapshotInterval, compressThreshold,
            lastExecutionTime, mergeWindow>>
vars == <<fields, commands, capacity, now>>

\* `this` at the start of a public call; `calls` logs the calls it makes on
\* commands, on createSnapshot and on the listeners, in order
this ==
    [undoStack |-> undoStack, redoStack |-> redoStack, maxStackSize |-> maxStackSize,
     isExecuting |-> isExecuting, changeListeners |-> changeListeners,
     commandFactories |-> commandFactories,
     transactionStack |-> transactionStack, snapshots |-> snapshots,
     snapshotInterval |-> snapshotInterval, compressThreshold |-> compressThreshold,
     lastExecutionTime |-> lastExecutionTime, mergeWindow |-> mergeWindow,
     calls |-> <<>>]

RECURSIVE Leaves(_)
RECURSIVE SeqLeaves(_)
SeqLeaves(s) == IF s = <<>> THEN 0 ELSE Leaves(s[1]) + SeqLeaves(Tail(s))
Leaves(c) == IF IsComposite(c) THEN SeqLeaves(c.commands) ELSE 1

RECURSIVE GroupLeaves(_)
GroupLeaves(t) == IF t = <<>> THEN 0 ELSE SeqLeaves(t[1]) + GroupLeaves(Tail(t))

\* the bounds of the exploration
Fits(e) ==
    /\ Len(e.transactionStack) <= MaxDepth
    /\ \A i \in 1..Len(e.transactionStack) : Len(e.transactionStack[i]) <= MaxGroup
    /\ SeqLeaves(e.undoStack) + SeqLeaves(e.redoStack)
         + GroupLeaves(e.transactionStack) <= capacity
    /\ Cardinality(DOMAIN e.snapshots) <= MaxSnapshots

\* the instance after a public call returned (or threw) r
Becomes(r) ==
    /\ Fits(r.eng)
    /\ undoStack' = r.eng.undoStack
    /\ redoStack' = r.eng.redoStack
    /\ maxStackSize' = r.eng.maxStackSize
    /\ isExecuting' = r.eng.isExecuting
    /\ changeListeners' = r.eng.changeListeners
    /\ commandFactories' = r.eng.commandFactories
    /\ transactionStack' = r.eng.transactionStack
    /\ snapshots' = r.eng.snapshots
    /\ snapshotInterval' = r.eng.snapshotInterval
    /\ compressThreshold' = r.eng.compressThreshold
    /\ lastExecutionTime' = r.eng.lastExecutionTime
    /\ mergeWindow' = r.eng.mergeWindow
    /\ UNCHANGED <<commands, capacity, now>>

\* new Oops(options), then registerCommand for the names in Registered
Start(apps) ==
    /\ \E app \in apps :
         LET e == New(app.options)
         IN  /\ commands = app.commands
             /\ capacity = app.capacity
             /\ undoStack = e.undoStack
             /\ redoStack = e.redoStack
             /\ maxStackSize = e.maxStackSize
             /\ isExecuting = e.isExecuting
             /\ changeListeners = app.listeners
             /\ transactionStack = e.transactionStack
             /\ snapshots = e.snapshots
             /\ snapshotInterval = e.snapshotInterval
             /\ compressThreshold = e.compressThreshold
             /\ lastExecutionTime = e.lastExecutionTime
             /\ mergeWindow = e.mergeWindow
    /\ commandFactories = Registered
    /\ now = Epoch

Init == Start(Apps)

Execute ==
    \E c \in commands, silent \in BOOLEAN, undoable \in BOOLEAN :
        Becomes(execute(this, [cmd |-> c], silent, undoable, now))

ExecuteByName ==
    \E n \in ExecNames : Becomes(execute(this, [name |-> n], FALSE, TRUE, now))

Undo == \E steps \in 1..MaxSteps : Becomes(undo(this, steps))

Redo == \E steps \in 1..MaxSteps : Becomes(redo(this, steps))

BeginTransaction == Becomes(beginTransaction(this))

CommitTransaction == Becomes(commitTransaction(this, now))

AbortTransaction == Becomes(abortTransaction(this))

RegisterCommand ==
    \E n \in LateNames \ commandFactories : Becomes(registerCommand(this, n))

CreateSnapshot == Becomes(Return(createSnapshot(this), "undefined"))

RecoverFromSnapshot == Becomes(recoverFromSnapshot(this))

CompressHistory == Becomes(compressHistory(this))

Clear == Becomes(clear(this))

\* time passes between calls; only the merge test of execute reads the clock,
\* and only for a command that has canMerge
Tick ==
    /\ \E c \in commands : HasCanMerge(c)
    /\ now < Epoch + MaxTicks
    /\ now' = now + 1
    /\ UNCHANGED <<fields, commands, capacity>>

\* a second instance with the default options and three commands in its history
ForeignEngine ==
    LET e0 == [New([maxStackSize |-> Null, snapshotInterval |-> Null,
                    compressThreshold |-> Null, mergeWindow |-> Null])
                 EXCEPT !.commandFactories = Registered]
        e1 == execute(e0, [cmd |-> Leaf("A", 1)], FALSE, TRUE, Epoch).eng
        e2 == execute(e1, [cmd |-> Leaf("A", 2)], FALSE, TRUE, Epoch).eng
    IN  execute(e2, [cmd |-> Leaf("A", 3)], FALSE, TRUE, Epoch).eng

\* the text that instance saved
ForeignJSON == serializeState(ForeignEngine)

\* the state objects handed to importState: the instance's own export and null
ImportState ==
    \E state \in {exportState(this), [null |-> TRUE]} :
        Becomes(importState(this, state))

\* the texts handed to deserializeState: the instance's own and the saved one
DeserializeState ==
    \E json \in {serializeState(this), ForeignJSON} :
        Becomes(deserializeState(this, json))

\* a text saved by an earlier run of the application, in which the command
\* that now fails had run and had been undone
SavedJSON ==
    JSONStringify([undoStack |-> <<serialize(Leaf("A", 1))>>,
                   redoStack |-> <<serialize(Leaf("X", 1))>>,
                   maxStackSize |-> Infinity,
                   snapshotInterval |-> 2,
                   compressThreshold |-> DefaultCompressThreshold,
                   mergeWindow |-> DefaultMergeWindow])

RestoreSaved == Becomes(deserializeState(this, SavedJSON))

\* The history, the transactions and the clock.
Next ==
    \/ Execute
    \/ Undo
    \/ Redo
    \/ BeginTransaction
    \/ CommitTransaction
    \/ AbortTransaction
    \/ CompressHistory
    \/ Clear
    \/ Tick

Spec == Init /\ [][Next]_vars

\* The history saved and loaded: the registry, export and import.
InitPersist == Start(PersistApps)

NextPersist ==
    \/ Execute
    \/ ExecuteByName
    \/ Undo
    \/ Redo
    \/ Clear
    \/ RegisterCommand
    \/ ImportState
    \/ DeserializeState

SpecPersist == InitPersist /\ [][NextPersist]_vars

\* Failing and re-entrant commands, snapshots and recovery.
InitFaults == Start({FailingApp})

NextFaults ==
    \/ Execute
    \/ Undo
    \/ Redo
    \/ Clear
    \/ RegisterCommand
    \/ CreateSnapshot
    \/ RecoverFromSnapshot
    \/ RestoreSaved

SpecFaults == InitFaults /\ [][NextFaults]_vars

\* Commands and a listener that call the manager while it is busy.
InitReentrant == Start({ReentrantApp})

NextReentrant ==
    \/ Execute
    \/ Undo
    \/ Redo
    \/ BeginTransaction
    \/ CommitTransaction
    \/ Clear

SpecReentrant == InitReentrant /\ [][NextReentrant]_vars

\* Commands that call the other public methods while the manager is busy.
InitNesting == Start({NestingApp})

NextNesting ==
    \/ Execute
    \/ Undo
    \/ Redo
    \/ BeginTransaction
    \/ CommitTransaction
    \/ AbortTransaction

SpecNesting == InitNesting /\ [][NextNesting]_vars

\* Transactions whose commit fails.
InitGroups == Start({FailingGroupApp})

NextGroups ==
    \/ Execute
    \/ Undo
    \/ Redo
    \/ BeginTransaction
    \/ CommitTransaction
    \/ AbortTransaction

SpecGroups == InitGroups /\ [][NextGroups]_vars

\* A saved history loaded over a session with open transactions and snapshots.
InitReset == Start(ResetApps)

NextReset ==
    \/ Execute
    \/ Undo
    \/ BeginTransaction
    \/ CreateSnapshot
    \/ ImportState

SpecReset == InitReset /\ [][NextReset]_vars

(***************************************************************************)
(* Vocabulary of the properties.  Each property is stated of the result of *)
(* a public call made in a reachable state, for every argument the         *)
(* application can pass.                                                   *)
(***************************************************************************)
ExecInputs == {[cmd |-> c] : c \in commands} \cup {[name |-> n] : n \in ExecNames}

Reverse(s) == [i \in 1..Len(s) |-> s[Len(s) + 1 - i]]

\* the leaf commands of a sequence of commands, composites flattened, in order
RECURSIVE LeafSeq(_)
LeafSeq(cmds) ==
    IF cmds = <<>> THEN <<>>
    ELSE (IF IsComposite(cmds[1]) THEN LeafSeq(cmds[1].commands) ELSE <<cmds[1]>>)
         \o LeafSeq(Tail(cmds))

IsExecuteCall(ev) == ev.call = "execute"
IsUndoCall(ev) == ev.call = "undo"
IsMergeCall(ev) == ev.call = "merge"
IsSnapshotCall(ev) == ev.call = "createSnapshot"
IsNotifyCall(ev) == ev.call = "notify"

\* the commands whose execute() / undo() a call invoked, in order
Executed(r) == LET evs == SelectSeq(r.eng.calls, IsExecuteCall)
               IN  [i \in 1..Len(evs) |-> evs[i].cmd]
Undone(r) == LET evs == SelectSeq(r.eng.calls, IsUndoCall)
             IN  [i \in 1..Len(evs) |-> evs[i].cmd]

Idle == ~isExecuting

(***************************************************************************)
(* C1, as stated: from any state in which no execute/undo/redo is in       *)
(* progress, open transaction or not, an undoable execute that returns     *)
(* without throwing leaves the redo stack empty.                           *)
(***************************************************************************)
C1_AsStated ==
    Idle => \A command \in ExecInputs, silent \in BOOLEAN :
                LET r == execute(this, command, silent, TRUE, now)
                IN  ~r.thrown => r.eng.redoStack = <<>>

(***************************************************************************)
(* C1, amended: with no transaction open, an undoable execute that returns *)
(* without throwing leaves the redo stack empty, whether the command was   *)
(* pushed or merged; with a transaction open the call only records the     *)
(* command and leaves the redo stack as it was.                            *)
(***************************************************************************)
C1_ExecuteClearsRedo ==
    Idle => \A command \in ExecInputs, silent \in BOOLEAN :
                LET r == execute(this, command, silent, TRUE, now)
                IN  ~r.thrown =>
                        r.eng.redoStack = IF transactionStack = <<>> THEN <<>>
                                          ELSE redoStack

\* a merge that clears a non-empty redo stack
C1_Witness ==
    /\ Idle
    /\ transactionStack = <<>>
    /\ redoStack # <<>>
    /\ \E c \in commands :
           LET r == execute(this, [cmd |-> c], FALSE, TRUE, now)
           IN  /\ MergeCondition(this, c, now)
               /\ ~r.thrown
               /\ Fits(r.eng)
               /\ Len(r.eng.undoStack) = Len(undoStack)
               /\ r.eng.redoStack = <<>>

(***************************************************************************)
(* C2, as stated: in every state observed after a public operation         *)
(* returns, the undo stack is no longer than the current maxStackSize.     *)
(***************************************************************************)
C2_AsStated == Len(undoStack) <= maxStackSize

Fresh(e) == [e EXCEPT !.calls = <<>>]

\* cs executed one after the other, each undoable and outside the others
RECURSIVE RunExecute(_, _, _)
RunExecute(e, cs, t) ==
    IF cs = <<>> THEN e
    ELSE RunExecute(execute(e, [cmd |-> cs[1]], FALSE, TRUE, t).eng, Tail(cs), t)

\* the number of undo() calls until canUndo is false
RECURSIVE UndosToEmpty(_)
UndosToEmpty(e) == IF ~canUndo(e) THEN 0 ELSE 1 + UndosToEmpty(undo(e, 1).eng)

Mergeable(newer, older) == HasCanMerge(newer) /\ canMerge(newer, older)

PairwiseNonMergeable(cs) ==
    \A i, j \in 1..Len(cs) : i # j => ~Mergeable(cs[i], cs[j])

EmptyEngine ==
    /\ Idle
    /\ undoStack = <<>>
    /\ redoStack = <<>>
    /\ transactionStack = <<>>

(***************************************************************************)
(* C3: with maxStackSize = N, N >= 1, and an empty engine, N+1 undoable    *)
(* executes of pairwise non-mergeable commands c1..c(N+1) outside any      *)
(* transaction leave the undo stack equal to <<c2, ..., c(N+1)>>, and      *)
(* exactly N calls of undo() are needed to reach canUndo = false.          *)
(***************************************************************************)
C3_EvictsOldest ==
    (EmptyEngine /\ maxStackSize >= 1 /\ maxStackSize < Infinity) =>
        \A cs \in [1..(maxStackSize + 1) -> commands] :
            PairwiseNonMergeable(cs) =>
                LET e == RunExecute(this, cs, now)
                IN  /\ e.undoStack = Tail(cs)
                    /\ UndosToEmpty(e) = maxStackSize

\* the undo stack is full after N executes of distinct commands, and the
\* execute of one more drops the oldest of them
C3_Witness ==
    /\ Idle
    /\ transactionStack = <<>>
    /\ redoStack = <<>>
    /\ maxStackSize < Infinity
    /\ Len(undoStack) = maxStackSize
    /\ undoStack[1] # undoStack[Len(undoStack)]
    /\ \E c \in commands :
           LET r == execute(this, [cmd |-> c], FALSE, TRUE, now)
           IN  /\ \A i \in 1..Len(undoStack) : undoStack[i] # c
               /\ PairwiseNonMergeable(undoStack \o <<c>>)
               /\ r.eng.undoStack = Tail(undoStack) \o <<c>>
               /\ UndosToEmpty(r.eng) = maxStackSize

\* the entries of the redo stack that redo(steps) runs, in the order it runs them
RedoBatch(steps) ==
    LET n == IF steps < Len(redoStack) THEN steps ELSE Len(redoStack)
    IN  Reverse(SubSeq(redoStack, Len(redoStack) - n + 1, Len(redoStack)))

(***************************************************************************)
(* C4: while a transaction is open, no call on the engine other than the   *)
(* commit that empties the transaction stack invokes the execute() of a    *)
(* command handed to execute: execute itself only records the command,     *)
(* and the commit of a nested transaction, beginTransaction,               *)
(* abortTransaction, undo, compressHistory and clear invoke no execute()   *)
(* at all; redo runs the entries of the redo stack and nothing else.       *)
(***************************************************************************)
C4_DeferredUntilOutermostCommit ==
    (Idle /\ transactionStack # <<>>) =>
        /\ \A command \in ExecInputs, silent \in BOOLEAN, undoable \in BOOLEAN :
               LET r == execute(this, command, silent, undoable, now)
               IN  /\ Executed(r) = <<>>
                   /\ r.eng.undoStack = undoStack
                   /\ Len(r.eng.transactionStack) = Len(transactionStack)
        /\ Len(transactionStack) >= 2 =>
               LET r == commitTransaction(this, now)
               IN  /\ Executed(r) = <<>>
                   /\ r.eng.undoStack = undoStack
                   /\ Len(r.eng.transactionStack) = Len(transactionStack) - 1
        /\ Executed(beginTransaction(this)) = <<>>
        /\ Executed(abortTransaction(this)) = <<>>
        /\ Executed(compressHistory(this)) = <<>>
        /\ Executed(clear(this)) = <<>>
        /\ \A steps \in 1..MaxSteps :
               /\ Executed(undo(this, steps)) = <<>>
               /\ LET r == redo(this, steps)
                  IN  /\ Executed(r) = LeafSeq(RedoBatch(steps))
                      /\ r.eng.transactionStack = transactionStack

\* the commit of a nested transaction holding two commands hands them to the
\* enclosing group and runs neither; the outermost commit then runs them
C4_Witness ==
    /\ Idle
    /\ Len(transactionStack) = 2
    /\ Len(Last(transactionStack)) = 2
    /\ LET r == commitTransaction(this, now)
           q == commitTransaction(Fresh(r.eng), now)
       IN  /\ Executed(r) = <<>>
           /\ Last(Last(r.eng.transactionStack)) = CompositeCommand(Last(transactionStack))
           /\ q.eng.transactionStack = <<>>
           /\ Len(Executed(q)) >= 2

\* no execute() or undo() of the commands throws
NoThrow(cmds) ==
    \A i \in 1..Len(LeafSeq(cmds)) :
        ~ThrowsOnExecute(LeafSeq(cmds)[i]) /\ ~ThrowsOnUndo(LeafSeq(cmds)[i])

\* the outermost transaction holds k >= 2 commands, none of which throws
OutermostCommitOfGroup ==
    /\ Idle
    /\ Len(transactionStack) = 1
    /\ Len(transactionStack[1]) >= 2
    /\ NoThrow(transactionStack[1])

\* the undo-stack length after one more entry is pushed and eviction applied
LengthAfterPush == IF Len(undoStack) + 1 > maxStackSize THEN Len(undoStack)
                   ELSE Len(undoStack) + 1

(***************************************************************************)
(* C5, as stated: the commit of the outermost transaction holding k >= 2   *)
(* commands, none of which throws, makes the undo stack one entry longer   *)
(* (or leaves its length equal if maxStackSize eviction applies), and the  *)
(* next undo() invokes the undo() of each of the k commands once, in       *)
(* reverse recorded order.                                                 *)
(***************************************************************************)
C5_AsStated ==
    OutermostCommitOfGroup =>
        LET r == commitTransaction(this, now)
        IN  /\ \/ Len(r.eng.undoStack) = Len(undoStack) + 1
               \/ /\ Len(undoStack) + 1 > maxStackSize
                  /\ Len(r.eng.undoStack) = Len(undoStack)
            /\ Undone(undo(Fresh(r.eng), 1)) = Reverse(LeafSeq(transactionStack[1]))

(***************************************************************************)
(* C5, amended: the commit of the outermost transaction holding k >= 2     *)
(* commands, none of which throws, makes the CompositeCommand of the k     *)
(* commands the top entry of the undo stack.  The length grows by one, or  *)
(* stays equal if maxStackSize eviction applies, as long as the result     *)
(* does not exceed compressThreshold; past compressThreshold the automatic *)
(* compression may merge older entries and the length is at most that.     *)
(* The next undo() invokes the undo() of each of the k commands once, in   *)
(* reverse recorded order.                                                 *)
(***************************************************************************)
C5_CommitIsOneEntry ==
    OutermostCommitOfGroup =>
        LET r == commitTransaction(this, now)
        IN  /\ r.eng.transactionStack = <<>>
            /\ Last(r.eng.undoStack) = CompositeCommand(transactionStack[1])
            /\ LengthAfterPush <= compressThreshold =>
                   Len(r.eng.undoStack) = LengthAfterPush
            /\ Len(r.eng.undoStack) <= LengthAfterPush
            /\ Undone(undo(Fresh(r.eng), 1)) = Reverse(LeafSeq(transactionStack[1]))
            /\ Executed(undo(Fresh(r.eng), 1)) = <<>>

\* a commit of two commands onto a non-empty history: one entry more, which
\* one undo() takes apart in reverse order
C5_Witness ==
    /\ OutermostCommitOfGroup
    /\ undoStack # <<>>
    /\ transactionStack[1][1] # transactionStack[1][2]
    /\ LET r == commitTransaction(this, now)
           u == undo(Fresh(r.eng), 1)
       IN  /\ ~r.thrown
           /\ Len(r.eng.undoStack) = Len(undoStack) + 1
           /\ Undone(u) = <<transactionStack[1][2], transactionStack[1][1]>>
           /\ u.eng.undoStack = undoStack

\* the calls of undo() that abortTransaction makes on the innermost group:
\* in reverse recorded order, up to the first one that throws
RECURSIVE UpToFirstThrow(_)
UpToFirstThrow(cmds) ==
    IF cmds = <<>> THEN <<>>
    ELSE IF ThrowsOnUndo(cmds[1]) THEN <<cmds[1]>>
    ELSE <<cmds[1]>> \o UpToFirstThrow(Tail(cmds))

(***************************************************************************)
(* C6, as stated: abortTransaction with a non-empty transaction stack      *)
(* removes the innermost group, invokes undo() on each command of the      *)
(* group in reverse recorded order, invokes no execute(), and leaves the   *)
(* undo stack and the redo stack as they were.                             *)
(***************************************************************************)
C6_AsStated ==
    (Idle /\ transactionStack # <<>>) =>
        LET r == abortTransaction(this)
        IN  /\ r.eng.transactionStack = Front(transactionStack)
            /\ Undone(r) = Reverse(LeafSeq(Last(transactionStack)))
            /\ Executed(r) = <<>>
            /\ r.eng.undoStack = undoStack
            /\ r.eng.redoStack = redoStack

(***************************************************************************)
(* C6, amended: abortTransaction with a non-empty transaction stack        *)
(* removes the innermost group, invokes undo() on the commands of the      *)
(* group in reverse recorded order up to and including the first one whose *)
(* undo() throws (all of them if none throws; the exception reaches the    *)
(* caller), invokes no execute(), and leaves the undo stack and the redo   *)
(* stack as they were.                                                     *)
(***************************************************************************)
C6_AbortDiscardsGroup ==
    (Idle /\ transactionStack # <<>>) =>
        LET r == abortTransaction(this)
            reversed == Reverse(LeafSeq(Last(transactionStack)))
        IN  /\ r.eng.transactionStack = Front(transactionStack)
            /\ Undone(r) = UpToFirstThrow(reversed)
            /\ r.thrown <=> \E i \in 1..Len(reversed) : ThrowsOnUndo(reversed[i])
            /\ Executed(r) = <<>>
            /\ r.eng.undoStack = undoStack
            /\ r.eng.redoStack = redoStack

\* an abort of a nested group of two commands, with an entry in the history
C6_Witness ==
    /\ Idle
    /\ Len(transactionStack) = 2
    /\ Len(Last(transactionStack)) = 2
    /\ Last(transactionStack)[1] # Last(transactionStack)[2]
    /\ undoStack # <<>>
    /\ LET r == abortTransaction(this)
       IN  /\ ~r.thrown
           /\ Undone(r) = <<Last(transactionStack)[2], Last(transactionStack)[1]>>
           /\ r.eng.transactionStack = <<transactionStack[1]>>

\* the three conditions of a merge of c, read off the state
MergeExpected(c) ==
    /\ undoStack # <<>>
    /\ now - lastExecutionTime < mergeWindow
    /\ Mergeable(c, Last(undoStack))

\* the calls of merge() logged by e
Merges(e) == SelectSeq(e.calls, IsMergeCall)

(***************************************************************************)
(* C7: an undoable execute outside a transaction merges the new command    *)
(* into the top entry (calls new.merge(top) in its push-or-merge step) if  *)
(* and only if the undo stack is non-empty, less than mergeWindow has      *)
(* elapsed since the last undoable execute, and new.canMerge(top) is true. *)
(* After the merge the top entry is replaced by the result and the length  *)
(* is unchanged; otherwise the command is appended and the length has      *)
(* grown by one before eviction.                                           *)
(***************************************************************************)
C7_MergeIffThreeConditions ==
    (Idle /\ transactionStack = <<>>) =>
        \A c \in commands, silent \in BOOLEAN :
            LET r == execute(this, [cmd |-> c], silent, TRUE, now)
                p == PushOrMerge(this, c, now)
            IN  ~ThrowsOnExecute(c) =>
                    /\ Merges(p) # <<>> <=> MergeExpected(c)
                    /\ MergeExpected(c) =>
                           /\ Merges(p) = <<[call |-> "merge", cmd |-> c,
                                             arg |-> Last(undoStack)]>>
                           /\ p.undoStack =
                                  Append(Front(undoStack), merge(c, Last(undoStack)))
                           /\ Len(p.undoStack) = Len(undoStack)
                    /\ ~MergeExpected(c) =>
                           /\ p.undoStack = Append(undoStack, c)
                           /\ Len(p.undoStack) = Len(undoStack) + 1
                    /\ (Len(p.undoStack) <= maxStackSize
                            /\ Len(p.undoStack) <= compressThreshold) =>
                           /\ r.eng.undoStack = p.undoStack
                           /\ Merges(r.eng) = Merges(p)

\* one command of the application merges into the top entry, and the same
\* command would not merge one tick later
C7_Witness ==
    /\ Idle
    /\ transactionStack = <<>>
    /\ Len(undoStack) >= 1
    /\ now - lastExecutionTime = mergeWindow - 1
    /\ \E c \in commands :
           LET r == execute(this, [cmd |-> c], FALSE, TRUE, now)
               late == execute(this, [cmd |-> c], FALSE, TRUE, now + 1)
           IN  /\ c # Last(undoStack)
               /\ MergeExpected(c)
               /\ ~r.thrown
               /\ Len(r.eng.undoStack) = Len(undoStack)
               /\ Last(r.eng.undoStack) = merge(c, Last(undoStack))
               /\ Len(late.eng.undoStack) = Len(undoStack) + 1

Snapshots(r) == SelectSeq(r.eng.calls, IsSnapshotCall)

\* the undo-stack length after the push or merge of c and the eviction
LengthAfterRecord(c) ==
    LET pushed == IF MergeExpected(c) THEN Len(undoStack) ELSE Len(undoStack) + 1
    IN  IF pushed > maxStackSize THEN pushed - 1 ELSE pushed

(***************************************************************************)
(* C8: with snapshotInterval = K, an undoable execute outside a            *)
(* transaction creates a snapshot during the call if and only if the       *)
(* undo-stack length after the push or merge and the eviction is a         *)
(* positive multiple of K; undo, redo, a non-undoable execute and an       *)
(* execute deferred into a transaction create none.                        *)
(***************************************************************************)
C8_SnapshotAtMultiples ==
    Idle =>
        /\ transactionStack = <<>> =>
               \A c \in commands, silent \in BOOLEAN :
                   LET r == execute(this, [cmd |-> c], silent, TRUE, now)
                       n == LengthAfterRecord(c)
                   IN  ~ThrowsOnExecute(c) =>
                           /\ Snapshots(r) # <<>> <=>
                                  (n > 0 /\ n % snapshotInterval = 0)
                           /\ Snapshots(r) # <<>> =>
                                  /\ Snapshots(r) =
                                         <<[call |-> "createSnapshot", depth |-> n]>>
                                  /\ n \in DOMAIN r.eng.snapshots
                           /\ Snapshots(r) = <<>> => r.eng.snapshots = snapshots
        /\ \A command \in ExecInputs, silent \in BOOLEAN :
               LET r == execute(this, command, silent, FALSE, now)
               IN  Snapshots(r) = <<>> /\ r.eng.snapshots = snapshots
        /\ transactionStack # <<>> =>
               \A command \in ExecInputs, silent \in BOOLEAN :
                   LET r == execute(this, command, silent, TRUE, now)
                   IN  Snapshots(r) = <<>> /\ r.eng.snapshots = snapshots
        /\ \A steps \in 1..MaxSteps :
               /\ Snapshots(undo(this, steps)) = <<>>
               /\ undo(this, steps).eng.snapshots = snapshots
               /\ Snapshots(redo(this, steps)) = <<>>
               /\ redo(this, steps).eng.snapshots = snapshots

\* an execute on a full undo stack: the length after eviction is K again and
\* a snapshot is created, although the length after the push alone is not a
\* multiple of K
C8_Witness ==
    /\ Idle
    /\ transactionStack = <<>>
    /\ snapshotInterval = 2
    /\ Len(undoStack) = maxStackSize
    /\ maxStackSize = 2
    /\ \E c \in commands :
           LET r == execute(this, [cmd |-> c], FALSE, TRUE, now)
           IN  /\ ~r.thrown
               /\ Snapshots(r) = <<[call |-> "createSnapshot", depth |-> 2]>>
               /\ r.eng.snapshots[2].undoStack = Map(Tail(undoStack) \o <<c>>, serialize)

\* every adjacent pair of s is mergeable whichever of the two is asked, or
\* mergeable for neither: the runs of s are the same under both readings
SameRunsBothWays(s) ==
    \A i \in 1..(Len(s) - 1) : Mergeable(s[i + 1], s[i]) <=> Mergeable(s[i], s[i + 1])

\* the number of maximal runs of adjacent mergeable commands of s
Runs(s) == Cardinality({i \in 1..Len(s) : i = 1 \/ ~Mergeable(s[i], s[i - 1])})

(***************************************************************************)
(* C9, as stated: compressHistory on an undo stack made of M maximal runs  *)
(* of adjacent mergeable commands leaves exactly M entries on the undo     *)
(* stack and leaves the redo stack unchanged.                              *)
(***************************************************************************)
C9_AsStated ==
    (Idle /\ SameRunsBothWays(undoStack)) =>
        LET r == compressHistory(this)
        IN  /\ Len(r.eng.undoStack) = Runs(undoStack)
            /\ r.eng.redoStack = redoStack

\* the serialized kind of every command on the stacks has a factory
AllRegistered(e) ==
    /\ \A i \in 1..Len(e.undoStack) : serialize(e.undoStack[i]).type \in e.commandFactories
    /\ \A i \in 1..Len(e.redoStack) : serialize(e.redoStack[i]).type \in e.commandFactories

Kinds(s) == [i \in 1..Len(s) |-> serialize(s[i]).type]

\* the engines a saved state is loaded into: this one, and a new one with the
\* default options and the same registry
Targets ==
    {this,
     [New([maxStackSize |-> Null, snapshotInterval |-> Null,
           compressThreshold |-> Null, mergeWindow |-> Null])
        EXCEPT !.commandFactories = commandFactories]}

SameHistory(e) ==
    /\ Len(e.undoStack) = Len(undoStack)
    /\ Len(e.redoStack) = Len(redoStack)
    /\ canUndo(e) = canUndo(this)
    /\ canRedo(e) = canRedo(this)
    /\ Kinds(e.undoStack) = Kinds(undoStack)
    /\ Kinds(e.redoStack) = Kinds(redoStack)

(***************************************************************************)
(* C10: for every reachable state whose stacked commands all have a        *)
(* registered factory for their serialized kind, importing the exported    *)
(* state (as an object, or through its text) into an engine with the same  *)
(* registry succeeds and yields the same undo-stack size, redo-stack size, *)
(* canUndo, canRedo and command kind at every position.                    *)
(***************************************************************************)
C10_ExportImportRoundTrip ==
    (Idle /\ AllRegistered(this)) =>
        \A target \in Targets :
            LET r == importState(target, exportState(this))
                t == deserializeState(target, serializeState(this))
            IN  /\ ~r.thrown
                /\ SameHistory(r.eng)
                /\ ~t.thrown
                /\ SameHistory(t.eng)

\* a history with entries of two kinds on both stacks, one of them of the kind
\* registered late, loaded into a new engine
C10_Witness ==
    /\ Idle
    /\ AllRegistered(this)
    /\ undoStack # <<>>
    /\ redoStack # <<>>
    /\ Kinds(undoStack) # Kinds(redoStack)
    /\ \E i \in 1..Len(redoStack) : redoStack[i].type = "N"
    /\ \A target \in Targets :
           LET r == importState(target, exportState(this))
           IN  ~r.thrown /\ SameHistory(r.eng) /\ r.eng.redoStack = redoStack


(***************************************************************************)
(* C11: outside a transaction, execute of a command whose execute() throws *)
(* re-throws to the caller, leaves the guard Idle, and leaves the undo     *)
(* stack, the redo stack, the snapshots and lastExecutionTime as they were *)
(* before the call, whatever the options passed.                           *)
(***************************************************************************)
FailsToExecute(c) == cmdExecute(Fresh(this), c).thrown

C11_ThrowingExecuteLeavesNoTrace ==
    Idle /\ transactionStack = <<>> =>
        \A c \in commands, silent \in BOOLEAN, undoable \in BOOLEAN :
            FailsToExecute(c) =>
                LET r == execute(Fresh(this), [cmd |-> c], silent, undoable, now)
                IN  /\ r.thrown
                    /\ ~r.eng.isExecuting
                    /\ r.eng.undoStack = undoStack
                    /\ r.eng.redoStack = redoStack
                    /\ r.eng.snapshots = snapshots
                    /\ r.eng.lastExecutionTime = lastExecutionTime
                    /\ Executed(r) = <<c>>

\* a failing command is executed on a history with an undoable entry, a
\* redoable entry and a stored snapshot
C11_Witness ==
    /\ Idle /\ transactionStack = <<>>
    /\ undoStack # <<>> /\ redoStack # <<>> /\ snapshots # EmptyMap
    /\ \E c \in commands :
           FailsToExecute(c) /\ execute(Fresh(this), [cmd |-> c], FALSE, TRUE, now).thrown

(***************************************************************************)
(* Failed reversals.  UndoFails(steps): undo(steps) called now reaches a   *)
(* command whose undo() throws; AfterFailedUndo(steps) is the instance at  *)
(* that point, inside the catch.  RedoFails / AfterFailedRedo likewise.    *)
(***************************************************************************)
AfterFailedUndo(steps) ==
    undoLoop([Fresh(this) EXCEPT !.isExecuting = TRUE], 0, steps, <<>>)

AfterFailedRedo(steps) ==
    redoLoop([Fresh(this) EXCEPT !.isExecuting = TRUE], 0, steps, <<>>)

UndoFails(steps) == Idle /\ undoStack # <<>> /\ AfterFailedUndo(steps).thrown
RedoFails(steps) == Idle /\ redoStack # <<>> /\ AfterFailedRedo(steps).thrown

\* the snapshot that recovery selects holds a kind with no registered factory
RecoveryFails(e) ==
    /\ QualifyingKeys(e) # {}
    /\ LET snapshot == e.snapshots[Max(QualifyingKeys(e))]
       IN  MapThrows(e, snapshot.undoStack) \/ MapThrows(e, snapshot.redoStack)

Notifications(r) == SelectSeq(r.eng.calls, IsNotifyCall)

\* every registered listener was called exactly once during the call
NotifiedOnce(r) ==
    \A i \in 1..Len(changeListeners) :
        Cardinality({j \in 1..Len(r.eng.calls) :
                        /\ IsNotifyCall(r.eng.calls[j])
                        /\ r.eng.calls[j].listener = changeListeners[i]}) = 1

(***************************************************************************)
(* C12, as stated: when a command's undo() throws during undo(steps), or   *)
(* its execute() during redo(steps), the call returns without throwing,    *)
(* every listener has been notified exactly once, and the guard is Idle.   *)
(***************************************************************************)
C12_AsStated ==
    \A steps \in 1..MaxSteps :
        /\ UndoFails(steps) =>
               LET r == undo(Fresh(this), steps)
               IN  ~r.thrown /\ NotifiedOnce(r) /\ ~r.eng.isExecuting
        /\ RedoFails(steps) =>
               LET r == redo(Fresh(this), steps)
               IN  ~r.thrown /\ NotifiedOnce(r) /\ ~r.eng.isExecuting

(***************************************************************************)
(* C12, amended: when a command's undo() throws during undo(steps), or its *)
(* execute() during redo(steps), the command's error is swallowed and the  *)
(* call ends as recoverFromSnapshot ends, with the guard Idle: it returns  *)
(* with every listener notified exactly once, unless the snapshot that     *)
(* recovery selects holds a kind with no registered factory, in which case *)
(* the call throws and no listener is notified.                            *)
(***************************************************************************)
EndsAsRecovery(r, failed) ==
    /\ r = Finally(recoverFromSnapshot(failed.eng))
    /\ ~r.eng.isExecuting
    /\ IF RecoveryFails(failed.eng)
       THEN r.thrown /\ Notifications(r) = <<>>
       ELSE ~r.thrown /\ NotifiedOnce(r)

C12_SwallowedUnlessRecoveryFails ==
    \A steps \in 1..MaxSteps :
        /\ UndoFails(steps) =>
               EndsAsRecovery(undo(Fresh(this), steps), AfterFailedUndo(steps))
        /\ RedoFails(steps) =>
               EndsAsRecovery(redo(Fresh(this), steps), AfterFailedRedo(steps))

\* a command's undo() throws, recovery applies a stored snapshot and the
\* call returns
C12_Witness ==
    \E steps \in 1..MaxSteps :
        /\ UndoFails(steps)
        /\ QualifyingKeys(AfterFailedUndo(steps).eng) # {}
        /\ ~RecoveryFails(AfterFailedUndo(steps).eng)
        /\ ~undo(Fresh(this), steps).thrown

\* the other cases of C12: redo fails; recovery finds nothing; recovery throws
C12_RedoFailsReached == \E steps \in 1..MaxSteps : RedoFails(steps)

C12_NoSnapshotReached ==
    \E steps \in 1..MaxSteps :
        UndoFails(steps) /\ QualifyingKeys(AfterFailedUndo(steps).eng) = {}

C12_RecoveryThrowsReached ==
    \E steps \in 1..MaxSteps :
        RedoFails(steps) /\ RecoveryFails(AfterFailedRedo(steps).eng)

(***************************************************************************)
(* Calls made while a call is in progress.  PublicCalls: the results of    *)
(* the calls that run commands or listeners, made now.  NestedWhileBusy(r) *)
(* are the calls that commands and listeners made back into the engine     *)
(* during r while isExecuting was true.                                    *)
(***************************************************************************)
PublicCalls ==
    {execute(Fresh(this), [cmd |-> c], silent, undoable, now) :
         c \in commands, silent \in BOOLEAN, undoable \in BOOLEAN}
    \cup {undo(Fresh(this), steps) : steps \in 1..MaxSteps}
    \cup {redo(Fresh(this), steps) : steps \in 1..MaxSteps}
    \cup {commitTransaction(Fresh(this), now)}

IsNestedCall(ev) == ev.call = "nested"
NestedWhileBusy(r) == SelectSeq(SelectSeq(r.eng.calls, IsNestedCall), LAMBDA ev : ev.busy)
NestedOps(r) == {NestedWhileBusy(r)[j].op : j \in 1..Len(NestedWhileBusy(r))}

(***************************************************************************)
(* C13: a call of execute, undo or redo made from a command's execute() or *)
(* undo() or from a listener while isExecuting is true returns undefined,  *)
(* does not throw, and leaves every field of the instance (the stacks, the *)
(* transaction stack, the snapshots, the guard) as it found them, without  *)
(* invoking any command or listener.                                       *)
(***************************************************************************)
C13_NestedCallsAreNoOps ==
    Idle =>
        \A r \in PublicCalls :
            \A j \in 1..Len(NestedWhileBusy(r)) :
                LET ev == NestedWhileBusy(r)[j]
                IN  ev.ret = "undefined" /\ ~ev.thrown /\ ~ev.changed

\* with entries on both stacks, commands call execute, undo and redo from
\* their execute(), a command calls undo from its undo(), and a listener
\* calls undo while a plain command is being undone
C13_Witness ==
    /\ Idle /\ undoStack # <<>> /\ redoStack # <<>>
    /\ \A i \in 1..3 : \E c \in commands :
           i \in NestedOps(execute(Fresh(this), [cmd |-> c], TRUE, TRUE, now))
    /\ ~Reenters(Last(undoStack))
    /\ Len(undoStack) > 1
    /\ 2 \in NestedOps(undo(Fresh(this), 1))
    /\ Reenters(Last(redoStack))
    /\ NestedOps(redo(Fresh(this), 1)) # {}

(***************************************************************************)
(* C14: when none of the commands concerned throws, undo(steps) with       *)
(* steps >= 1 removes the top m = min(steps, length) entries of the undo   *)
(* stack, calls their undo() most recent first, and appends the m entries  *)
(* to the redo stack in the order they had on the undo stack; what was on  *)
(* the redo stack and what remains of the undo stack is unchanged.         *)
(***************************************************************************)
UndoBatch(steps) ==
    LET m == IF steps < Len(undoStack) THEN steps ELSE Len(undoStack)
    IN  SubSeq(undoStack, Len(undoStack) - m + 1, Len(undoStack))

C14_UndoMovesBatchInOrder ==
    Idle =>
        \A steps \in 1..(MaxCmds + 1) :
            NoThrow(UndoBatch(steps)) =>
                LET r == undo(Fresh(this), steps)
                    m == Len(UndoBatch(steps))
                IN  /\ ~r.thrown
                    /\ r.eng.undoStack = SubSeq(undoStack, 1, Len(undoStack) - m)
                    /\ r.eng.redoStack = redoStack \o UndoBatch(steps)
                    /\ Undone(r) = Reverse(LeafSeq(UndoBatch(steps)))
                    /\ Executed(r) = <<>>

\* a batch of two distinct entries is undone onto a non-empty redo stack
C14_Witness ==
    /\ Idle /\ Len(undoStack) >= 2 /\ redoStack # <<>>
    /\ undoStack[Len(undoStack)] # undoStack[Len(undoStack) - 1]
    /\ NoThrow(UndoBatch(2))
    /\ undo(Fresh(this), 2).eng.redoStack = redoStack \o UndoBatch(2)

(***************************************************************************)
(* C15, as stated: for every k >= 1 and every undo stack of length >= k    *)
(* whose top k commands do not throw, undo(k) followed by k calls of       *)
(* redo() leaves the undo stack and the redo stack as they were before the *)
(* undo, and the redo calls invoke execute() on the k commands in their    *)
(* original order, the oldest undone first.                                *)
(***************************************************************************)
RECURSIVE RedoTimes(_, _)
RedoTimes(e, k) == IF k = 0 THEN e ELSE RedoTimes(redo(e, 1).eng, k - 1)

C15_AsStated ==
    Idle =>
        \A k \in 1..MaxCmds :
            Len(undoStack) >= k /\ NoThrow(UndoBatch(k)) =>
                LET undone == undo(Fresh(this), k).eng
                    e == RedoTimes(Fresh(undone), k)
                IN  /\ e.undoStack = undoStack
                    /\ e.redoStack = redoStack
                    /\ Executed(Return(e, "undefined")) = LeafSeq(UndoBatch(k))

(***************************************************************************)
(* Recovery, stated on the instance as it is now.  Depths: the stored      *)
(* depths not above the length of the undo stack.  Rebuilt(sers): the      *)
(* commands that the registered factories build from serialized payloads.  *)
(***************************************************************************)
Depths == {d \in DOMAIN snapshots : d <= Len(undoStack)}

Known(sers) == \A i \in 1..Len(sers) : sers[i].type \in commandFactories

Rebuilt(sers) == [i \in 1..Len(sers) |-> factory(sers[i].type, sers[i].data)]

StacksUntouched(r) == r.eng.undoStack = undoStack /\ r.eng.redoStack = redoStack

(***************************************************************************)
(* C16, as stated: recoverFromSnapshot replaces both stacks by the         *)
(* deserialized payloads of the snapshot of the greatest stored depth that *)
(* is <= the undo-stack length, leaves both stacks untouched when there is *)
(* no such depth, and in both cases notifies every listener exactly once.  *)
(***************************************************************************)
C16_AsStated ==
    Idle =>
        LET r == recoverFromSnapshot(Fresh(this))
        IN  /\ NotifiedOnce(r)
            /\ IF Depths = {} THEN StacksUntouched(r)
               ELSE \E d \in Depths :
                        /\ \A o \in Depths : o <= d
                        /\ Known(snapshots[d].undoStack)
                        /\ Known(snapshots[d].redoStack)
                        /\ r.eng.undoStack = Rebuilt(snapshots[d].undoStack)
                        /\ r.eng.redoStack = Rebuilt(snapshots[d].redoStack)

(***************************************************************************)
(* C16, amended: recoverFromSnapshot selects the greatest stored depth d   *)
(* that is <= the undo-stack length.  With no such depth it leaves both    *)
(* stacks untouched and notifies every listener once.  With every kind of  *)
(* the snapshot registered it replaces both stacks by the deserialized     *)
(* payloads and notifies every listener once.  With an unregistered kind   *)
(* it throws and notifies nobody: both stacks untouched when the kind is   *)
(* in the undo payload, the undo stack already replaced and the redo stack *)
(* untouched when it is in the redo payload only.                          *)
(***************************************************************************)
C16_RecoverFromGreatestDepth ==
    Idle =>
        LET r == recoverFromSnapshot(Fresh(this))
        IN  IF Depths = {}
            THEN ~r.thrown /\ StacksUntouched(r) /\ NotifiedOnce(r)
            ELSE \E d \in Depths :
                     /\ \A o \in Depths : o <= d
                     /\ LET snapshot == snapshots[d]
                        IN  IF ~Known(snapshot.undoStack)
                            THEN r.thrown /\ StacksUntouched(r) /\ Notifications(r) = <<>>
                            ELSE IF ~Known(snapshot.redoStack)
                            THEN /\ r.thrown /\ Notifications(r) = <<>>
                                 /\ r.eng.undoStack = Rebuilt(snapshot.undoStack)
                                 /\ r.eng.redoStack = redoStack
                            ELSE /\ ~r.thrown /\ NotifiedOnce(r)
                                 /\ r.eng.undoStack = Rebuilt(snapshot.undoStack)
                                 /\ r.eng.redoStack = Rebuilt(snapshot.redoStack)

\* two stored depths qualify; recovery applies the deeper one and changes the
\* stacks
C16_Witness ==
    /\ Idle
    /\ \E d1 \in Depths, d2 \in Depths :
           /\ d1 < d2
           /\ snapshots[d1] # snapshots[d2]
           /\ Known(snapshots[d2].undoStack) /\ Known(snapshots[d2].redoStack)
           /\ ~StacksUntouched(recoverFromSnapshot(Fresh(this)))
           /\ recoverFromSnapshot(Fresh(this)).eng.undoStack = Rebuilt(snapshots[d2].undoStack)

\* the other cases of C16
C16_TooDeepReached ==
    Idle /\ Depths # {} /\ Depths # DOMAIN snapshots
         /\ ~StacksUntouched(recoverFromSnapshot(Fresh(this)))

C16_HalfReplacedReached ==
    /\ Idle
    /\ recoverFromSnapshot(Fresh(this)).thrown
    /\ recoverFromSnapshot(Fresh(this)).eng.undoStack # undoStack

(***************************************************************************)
(* C17, as stated: a command passed to execute with undoable = false is    *)
(* never added to the undo stack: it is not in history, as an entry or     *)
(* inside a composite entry, when the call returns nor after the open      *)
(* transactions are committed.                                             *)
(***************************************************************************)
LeafSet(cmds) == {LeafSeq(cmds)[i] : i \in 1..Len(LeafSeq(cmds))}

RECURSIVE CommitAll(_, _)
CommitAll(e, t) ==
    IF e.transactionStack = <<>> THEN e ELSE CommitAll(commitTransaction(e, t).eng, t)

\* the command is not yet anywhere in the instance
NewTo(c) ==
    /\ c \notin LeafSet(undoStack) \cup LeafSet(redoStack)
    /\ \A i \in 1..Len(transactionStack) : c \notin LeafSet(transactionStack[i])

C17_AsStated ==
    Idle =>
        \A c \in commands, silent \in BOOLEAN :
            NewTo(c) /\ NoThrow(<<c>>) =>
                LET r == execute(Fresh(this), [cmd |-> c], silent, FALSE, now)
                IN  /\ c \notin LeafSet(r.eng.undoStack)
                    /\ c \notin LeafSet(CommitAll(r.eng, now).undoStack)

(***************************************************************************)
(* C18: execute of a name that has no registered factory throws, leaves    *)
(* every field of the instance as it was (the stacks, the transaction      *)
(* stack, the snapshots, lastExecutionTime), invokes no command and no     *)
(* listener, and leaves the guard Idle, whatever the options passed and    *)
(* whether or not a transaction is open.                                   *)
(***************************************************************************)
UnknownNames == (ExecNames \cup LateNames) \ commandFactories

C18_UnknownNameChangesNothing ==
    Idle =>
        \A n \in UnknownNames, silent \in BOOLEAN, undoable \in BOOLEAN :
            LET r == execute(Fresh(this), [name |-> n], silent, undoable, now)
            IN  /\ r.thrown
                /\ ~r.eng.isExecuting
                /\ r.eng = Fresh(this)

\* an unknown name is executed with commands recorded in an open transaction,
\* on a history with entries on both stacks
C18_Witness ==
    /\ Idle /\ transactionStack # <<>> /\ Last(transactionStack) # <<>>
    /\ undoStack # <<>> /\ redoStack # <<>>
    /\ \E n \in UnknownNames : execute(Fresh(this), [name |-> n], FALSE, TRUE, now).thrown

(***************************************************************************)
(* State objects handed to importState: the instance's own export, and     *)
(* saved states with one or no entry and each configuration field either   *)
(* absent (null) or present.                                               *)
(***************************************************************************)
ImportedStates ==
    {exportState(this)} \cup
    {[undoStack |-> u, redoStack |-> <<>>, maxStackSize |-> a, snapshotInterval |-> b,
      compressThreshold |-> c, mergeWindow |-> d] :
         u \in {<<>>, <<serialize(Leaf("M", 1))>>},
         a \in {Null, 2}, b \in {Null, 3}, c \in {Null, 2}, d \in {Null, 1, Infinity}}

\* `imported || current`
Truthy(imported, current) == IF imported # Null THEN imported ELSE current

\* what a successful import leaves, apart from the merging of the next execute
ResetsTransientState(r, state) ==
    /\ ~r.eng.isExecuting
    /\ r.eng.lastExecutionTime = 0
    /\ r.eng.transactionStack = <<>>
    /\ Executed(r) = <<>> /\ Undone(r) = <<>>
    /\ r.eng.snapshots = EmptyMap
    /\ r.eng.maxStackSize = Truthy(state.maxStackSize, maxStackSize)
    /\ r.eng.snapshotInterval = Truthy(state.snapshotInterval, snapshotInterval)
    /\ r.eng.compressThreshold = Truthy(state.compressThreshold, compressThreshold)
    /\ r.eng.mergeWindow = Truthy(state.mergeWindow, mergeWindow)

\* the next undoable execute of c after the import r merges c into the top entry
NextExecuteMerges(r, c) ==
    Merges(execute(Fresh(r.eng), [cmd |-> c], FALSE, TRUE, now).eng) # <<>>

(***************************************************************************)
(* C19, as stated: after a successful importState the guard is Idle,       *)
(* lastExecutionTime is 0 so that the next undoable execute cannot merge,  *)
(* the transaction stack is empty with no execute() or undo() invoked, the *)
(* snapshot map is empty, and each configuration field has the imported    *)
(* value when that value is truthy and its former value otherwise.         *)
(***************************************************************************)
C19_AsStated ==
    Idle =>
        \A state \in ImportedStates :
            LET r == importState(Fresh(this), state)
            IN  ~r.thrown =>
                    /\ ResetsTransientState(r, state)
                    /\ \A c \in commands : ~NextExecuteMerges(r, c)

(***************************************************************************)
(* C19, amended: after a successful importState the guard is Idle,         *)
(* lastExecutionTime is 0, the transaction stack is empty with no          *)
(* execute() or undo() invoked, the snapshot map is empty, and each        *)
(* configuration field has the imported value when truthy and its former   *)
(* value otherwise.  The next undoable execute merges exactly when the     *)
(* imported undo stack is non-empty, the new command's canMerge accepts    *)
(* its top entry, and the clock reads less than the resulting mergeWindow  *)
(* (a mergeWindow of Infinity): a finite window shorter than the time      *)
(* since the epoch never merges.                                           *)
(***************************************************************************)
C19_ImportResetsTransientState ==
    Idle =>
        \A state \in ImportedStates :
            LET r == importState(Fresh(this), state)
            IN  ~r.thrown =>
                    /\ ResetsTransientState(r, state)
                    /\ \A c \in commands :
                           NextExecuteMerges(r, c) <=>
                               /\ r.eng.undoStack # <<>>
                               /\ Mergeable(c, Last(r.eng.undoStack))
                               /\ now < r.eng.mergeWindow

\* a state is imported over an open transaction holding a command and a
\* stored snapshot, with a field absent and a field present, and the finite
\* window keeps the next execute from merging into the imported entry
C19_Witness ==
    /\ Idle /\ transactionStack # <<>> /\ Last(transactionStack) # <<>>
    /\ snapshots # EmptyMap /\ lastExecutionTime # 0
    /\ \E state \in ImportedStates :
           LET r == importState(Fresh(this), state)
           IN  /\ ~r.thrown
               /\ state.maxStackSize = Null /\ state.snapshotInterval # Null
               /\ r.eng.snapshotInterval # snapshotInterval
               /\ r.eng.undoStack # <<>>
               /\ r.eng.mergeWindow < now
               /\ \E c \in commands :
                      Mergeable(c, Last(r.eng.undoStack)) /\ ~NextExecuteMerges(r, c)

(***************************************************************************)
(* C20, as stated: every public operation that returns with the undo stack *)
(* or the redo stack changed (execute without silent, undo, redo,          *)
(* commitTransaction, compressHistory, recoverFromSnapshot, importState,   *)
(* clear) has invoked every registered listener at least once, and the     *)
(* last state it passed holds canUndo, canRedo, undoStackSize and          *)
(* redoStackSize of the stacks as the operation leaves them.               *)
(***************************************************************************)
NotifyingCalls ==
    {execute(Fresh(this), [cmd |-> c], FALSE, undoable, now) :
         c \in commands, undoable \in BOOLEAN}
    \cup {undo(Fresh(this), steps) : steps \in 1..MaxSteps}
    \cup {redo(Fresh(this), steps) : steps \in 1..MaxSteps}
    \cup {commitTransaction(Fresh(this), now), recoverFromSnapshot(Fresh(this)),
          importState(Fresh(this), exportState(Fresh(undo(this, 1).eng))),
          clear(Fresh(this))}

StateOf(e) == [canUndo |-> Len(e.undoStack) > 0, canRedo |-> Len(e.redoStack) > 0,
               undoStackSize |-> Len(e.undoStack), redoStackSize |-> Len(e.redoStack)]

InformsListeners(r) ==
    (~r.thrown /\ ~StacksUntouched(r)) =>
        /\ \A i \in 1..Len(changeListeners) :
               \E j \in 1..Len(Notifications(r)) :
                   Notifications(r)[j].listener = changeListeners[i]
        /\ Last(Notifications(r)).state = StateOf(r.eng)

C20_AsStated ==
    Idle => \A r \in NotifyingCalls \cup {compressHistory(Fresh(this))} :
                InformsListeners(r)

(***************************************************************************)
(* C21, as stated: with commands that have no canMerge method on the undo  *)
(* stack, neither a direct compressHistory call nor an execute (with the   *)
(* compression it triggers past compressThreshold) of a command that does  *)
(* not throw fails, and compressHistory keeps every such command as an     *)
(* entry of its own.                                                       *)
(***************************************************************************)
Entries(s) == {s[i] : i \in 1..Len(s)}

C21_AsStated ==
    Idle =>
        /\ ~compressHistory(Fresh(this)).thrown
        /\ \A c \in commands :
               transactionStack = <<>> /\ NoThrow(<<c>>) =>
                   ~execute(Fresh(this), [cmd |-> c], FALSE, TRUE, now).thrown
        /\ \A i \in 1..Len(undoStack) :
               ~HasCanMerge(undoStack[i]) =>
                   undoStack[i] \in Entries(compressHistory(Fresh(this)).eng.undoStack)

(***************************************************************************)
(* The commands recorded in the open transactions, in the order in which   *)
(* they were handed to execute: an enclosing group was filled before the   *)
(* group opened inside it.                                                 *)
(***************************************************************************)
RECURSIVE Submitted(_)
Submitted(t) == IF t = <<>> THEN <<>> ELSE LeafSeq(t[1]) \o Submitted(Tail(t))

IsCanMergeCall(ev) == ev.call = "canMerge"
MergeQuestions(e) == SelectSeq(e.calls, LAMBDA ev : IsCanMergeCall(ev) \/ IsMergeCall(ev))

NewerAsksOlder(evs, newer, older) ==
    \A j \in 1..Len(evs) : evs[j].cmd = newer /\ evs[j].arg = older

C23_AsStated ==
    Idle =>
        /\ \A c \in commands :
               undoStack # <<>> =>
                   NewerAsksOlder(MergeQuestions(PushOrMerge(Fresh(this), c, now)),
                                  c, Last(undoStack))
        /\ (Len(undoStack) = 2 /\ HasCanMerge(undoStack[1]) /\ HasCanMerge(undoStack[2])) =>
               LET evs == MergeQuestions(compressHistory(Fresh(this)).eng)
               IN  evs # <<>> /\ NewerAsksOlder(evs, undoStack[2], undoStack[1])

(***************************************************************************)
(* The pop at which undo(steps) fails: FailingPop(steps) is the number of  *)
(* entries popped when the first undo() throws (0 when none throws within  *)
(* the batch), counted from the top of the undo stack.                     *)
(***************************************************************************)
UndoThrows(c) == \E i \in 1..Len(LeafSeq(<<c>>)) : ThrowsOnUndo(LeafSeq(<<c>>)[i])

FailingPops(steps) ==
    {j \in 1..Len(UndoBatch(steps)) : UndoThrows(undoStack[Len(undoStack) + 1 - j])}

FailingPop(steps) ==
    IF FailingPops(steps) = {} THEN 0
    ELSE CHOOSE j \in FailingPops(steps) : \A o \in FailingPops(steps) : j <= o

NoSnapshotUpTo(n) == \A d \in DOMAIN snapshots : d > n

(***************************************************************************)
(* C24: when a command's undo() throws during undo(steps) and no stored    *)
(* snapshot has a depth <= the undo-stack length after the failing pop,    *)
(* the call returns with the redo stack exactly as before the call and the *)
(* undo stack without the entries popped during the call; the failing      *)
(* command is not put back.                                                *)
(***************************************************************************)
C24_FailedUndoIsNotRestored ==
    Idle =>
        \A steps \in 1..MaxCmds :
            LET j == FailingPop(steps)
            IN  (j > 0 /\ NoSnapshotUpTo(Len(undoStack) - j)) =>
                    LET r == undo(Fresh(this), steps)
                    IN  /\ ~r.thrown
                        /\ r.eng.redoStack = redoStack
                        /\ r.eng.undoStack = SubSeq(undoStack, 1, Len(undoStack) - j)
                        /\ Len(Undone(r)) >= j

\* the second pop of undo(2) fails on a history with an entry to redo and no
\* snapshot to recover from
C24_Witness ==
    /\ Idle /\ redoStack # <<>>
    /\ FailingPop(2) = 2
    /\ NoSnapshotUpTo(Len(undoStack) - 2)
    /\ undo(Fresh(this), 2).eng.undoStack = SubSeq(undoStack, 1, Len(undoStack) - 2)
    /\ undo(Fresh(this), 2).eng.redoStack = redoStack

(***************************************************************************)
(* C25: when the outermost transaction holding k >= 2 commands is          *)
(* committed and the j-th command's execute() throws, commitTransaction    *)
(* throws; commands 1..j-1 have been executed and none has been undone,    *)
(* commands j+1..k are not executed, the undo stack and the redo stack are *)
(* unchanged, and the group is no longer on the transaction stack.         *)
(* Commands are counted as the leaves of the group (a committed inner      *)
(* group is a composite inside it).                                        *)
(***************************************************************************)
FirstThrowing(cmds) ==
    LET S == {j \in 1..Len(cmds) : ThrowsOnExecute(cmds[j])}
    IN  IF S = {} THEN 0 ELSE CHOOSE j \in S : \A o \in S : j <= o

C25_FailedCommitLeavesNoEntry ==
    (Idle /\ Len(transactionStack) = 1 /\ Len(transactionStack[1]) >= 2) =>
        LET group == LeafSeq(transactionStack[1])
            j == FirstThrowing(group)
            r == commitTransaction(Fresh(this), now)
        IN  j > 0 =>
                /\ r.thrown
                /\ Executed(r) = SubSeq(group, 1, j)
                /\ Undone(r) = <<>>
                /\ r.eng.undoStack = undoStack
                /\ r.eng.redoStack = redoStack
                /\ r.eng.transactionStack = <<>>
                /\ ~r.eng.isExecuting

\* three commands are committed and the second one throws: the first has run
\* and stays run, the third never runs
C25_Witness ==
    /\ Idle /\ Len(transactionStack) = 1 /\ Len(transactionStack[1]) >= 2
    /\ Len(LeafSeq(transactionStack[1])) = 3
    /\ FirstThrowing(LeafSeq(transactionStack[1])) = 2
    /\ commitTransaction(Fresh(this), now).thrown
    /\ Executed(commitTransaction(Fresh(this), now))
           = SubSeq(LeafSeq(transactionStack[1]), 1, 2)

\* a commit fails with an entry on the undo stack and an entry on the redo stack
C25_StacksReached ==
    /\ Idle /\ Len(transactionStack) = 1 /\ Len(transactionStack[1]) >= 2
    /\ undoStack # <<>> /\ redoStack # <<>>
    /\ commitTransaction(Fresh(this), now).thrown

(***************************************************************************)
(* C26: importState is not atomic.  When every payload of the imported     *)
(* undo array deserializes but a payload of the redo array names a kind    *)
(* with no registered factory, importState throws with the undo stack      *)
(* already replaced, while the redo stack, the configuration, the          *)
(* transaction stack, the snapshots and the guard keep their values and no *)
(* listener is notified.  When a payload of the undo array fails, the call *)
(* throws and nothing has changed.                                         *)
(***************************************************************************)
\* state objects saved by an instance that knew a kind this one may not know
PartlyKnownStates ==
    {[undoStack |-> u, redoStack |-> r, maxStackSize |-> a, snapshotInterval |-> 3,
      compressThreshold |-> Null, mergeWindow |-> 1] :
         u \in {<<>>, <<serialize(Leaf("M", 2))>>, <<serialize(Leaf("N", 2))>>,
                <<serialize(Leaf("M", 1)), serialize(Leaf("N", 2))>>},
         r \in {<<>>, <<serialize(Leaf("N", 2))>>,
                <<serialize(Leaf("M", 1)), serialize(Leaf("N", 2))>>},
         a \in {Null, 2}}

C26_ImportIsNotAtomic ==
    \A state \in PartlyKnownStates :
        LET r == importState(Fresh(this), state)
        IN  /\ ~Known(state.undoStack) => (r.thrown /\ r.eng = Fresh(this))
            /\ (Known(state.undoStack) /\ ~Known(state.redoStack)) =>
                   /\ r.thrown
                   /\ r.eng = [Fresh(this) EXCEPT !.undoStack = Rebuilt(state.undoStack)]
                   /\ Notifications(r) = <<>>

\* a failed import replaces the undo stack of an instance that has entries on
\* both stacks, an open transaction and a snapshot
C26_Witness ==
    /\ undoStack # <<>> /\ redoStack # <<>>
    /\ transactionStack # <<>> /\ DOMAIN snapshots # {}
    /\ \E state \in PartlyKnownStates :
           /\ Known(state.undoStack) /\ ~Known(state.redoStack)
           /\ importState(Fresh(this), state).thrown
           /\ importState(Fresh(this), state).eng.undoStack # undoStack
           /\ importState(Fresh(this), state).eng.redoStack = redoStack

\* an import fails on a payload of the undo array
C26_UndoPayloadFailsReached ==
    /\ undoStack # <<>> /\ redoStack # <<>>
    /\ \E state \in PartlyKnownStates :
           ~Known(state.undoStack) /\ importState(Fresh(this), state).thrown

(***************************************************************************)
(* C27: an execute call made while a transaction is open (from outside any *)
(* running operation, with a command object or a registered name) changes  *)
(* only the innermost group, at whose end the resolved command is          *)
(* appended: the undo stack, the redo stack, the snapshots,                *)
(* lastExecutionTime, the configuration and the outer groups are as        *)
(* before, no listener and no execute() is called, the call returns        *)
(* undefined and the guard is reset.                                       *)
(***************************************************************************)
\* the inputs of execute that resolve to a command
Resolvable == {c \in ExecInputs : IsName(c) => c.name \in commandFactories}

\* the command an input of execute resolves to
Resolved(c) == IF IsName(c) THEN factory(c.name, NoData) ELSE c.cmd

C27_DeferredExecuteFrame ==
    (Idle /\ transactionStack # <<>>) =>
        \A command \in Resolvable, silent \in BOOLEAN, undoable \in BOOLEAN :
            LET r == execute(Fresh(this), command, silent, undoable, now)
            IN  /\ ~r.thrown
                /\ r.ret = "undefined"
                /\ r.eng.calls = <<>>
                /\ ~r.eng.isExecuting
                /\ r.eng = [Fresh(this) EXCEPT
                              !.transactionStack[Len(transactionStack)] =
                                  Append(@, Resolved(command))]

\* a command is handed by name to an instance with two open groups, the outer
\* one holding a command, and with an entry on the undo stack
C27_Witness ==
    /\ Idle /\ Len(transactionStack) = 2
    /\ transactionStack[1] # <<>> /\ undoStack # <<>>
    /\ [name |-> "A"] \in Resolvable
    /\ LET r == execute(Fresh(this), [name |-> "A"], FALSE, TRUE, now)
       IN  /\ Last(Last(r.eng.transactionStack)) = factory("A", NoData)
           /\ r.eng.transactionStack[1] = transactionStack[1]
           /\ r.eng.undoStack = undoStack

(***************************************************************************)
(* C28: every stored snapshot is keyed by the length the undo stack had    *)
(* when it was taken: the serialized undo stack of the snapshot at depth d *)
(* has exactly d entries; createSnapshot stores the current stacks under   *)
(* the current length, replacing the snapshot already stored under that    *)
(* depth and no other; a recovery never leaves the undo stack longer than  *)
(* it was.                                                                 *)
(***************************************************************************)
\* the snapshot createSnapshot takes of the current stacks
SnapshotNow ==
    [undoStack |-> Map(undoStack, serialize), redoStack |-> Map(redoStack, serialize)]

C28_SnapshotsKeyedByDepth ==
    /\ \A d \in DOMAIN snapshots : Len(snapshots[d].undoStack) = d
    /\ LET e == createSnapshot(Fresh(this))
       IN  /\ DOMAIN e.snapshots = DOMAIN snapshots \cup {Len(undoStack)}
           /\ e.snapshots[Len(undoStack)] = SnapshotNow
           /\ \A d \in DOMAIN snapshots \ {Len(undoStack)} : e.snapshots[d] = snapshots[d]
           /\ \A d \in DOMAIN e.snapshots : Len(e.snapshots[d].undoStack) = d
    /\ Len(recoverFromSnapshot(Fresh(this)).eng.undoStack) <= Len(undoStack)

\* a snapshot is taken at a depth that already has a different snapshot, with
\* a snapshot of another depth stored
C28_Witness ==
    /\ Len(undoStack) \in DOMAIN snapshots
    /\ snapshots[Len(undoStack)] # SnapshotNow
    /\ DOMAIN snapshots # {Len(undoStack)}
    /\ createSnapshot(Fresh(this)).snapshots[Len(undoStack)] = SnapshotNow

\* a recovery applies a snapshot of a smaller depth and shortens the undo stack
C28_ShorterReached ==
    /\ QualifyingKeys(this) # {}
    /\ Max(QualifyingKeys(this)) < Len(undoStack)
    /\ ~recoverFromSnapshot(Fresh(this)).thrown
    /\ Len(recoverFromSnapshot(Fresh(this)).eng.undoStack) = Max(QualifyingKeys(this))

(***************************************************************************)
(* C29, as stated: for every n >= 1, when none of the commands concerned   *)
(* throws, undo(n) leaves the undo stack and the redo stack exactly as n   *)
(* successive calls of undo() leave them, and redo(n) leaves them exactly  *)
(* as n successive calls of redo() leave them.                             *)
(***************************************************************************)
RECURSIVE UndoTimes(_, _)
UndoTimes(e, n) == IF n = 0 THEN e ELSE UndoTimes(undo(e, 1).eng, n - 1)

C29_AsStated ==
    Idle =>
        \A n \in 1..MaxCmds :
            /\ NoThrow(UndoBatch(n)) =>
                   LET batch == undo(Fresh(this), n).eng
                       single == UndoTimes(Fresh(this), n)
                   IN  /\ batch.undoStack = single.undoStack
                       /\ batch.redoStack = single.redoStack
            /\ NoThrow(RedoBatch(n)) =>
                   LET batch == redo(Fresh(this), n).eng
                       single == RedoTimes(Fresh(this), n)
                   IN  /\ batch.undoStack = single.undoStack
                       /\ batch.redoStack = single.redoStack

\* the undo half alone, and the redo half alone, each fail
C29_UndoHalf ==
    Idle =>
        \A n \in 1..MaxCmds :
            NoThrow(UndoBatch(n)) =>
                undo(Fresh(this), n).eng.redoStack = UndoTimes(Fresh(this), n).redoStack

C29_RedoHalf ==
    Idle =>
        \A n \in 1..MaxCmds :
            NoThrow(RedoBatch(n)) =>
                redo(Fresh(this), n).eng.undoStack = RedoTimes(Fresh(this), n).undoStack

(***************************************************************************)
(* C30, as stated: when undo(steps) returns after the undo() of the j-th   *)
(* popped command threw and no snapshot was applied, each of the j-1       *)
(* commands undone earlier in the call is on the redo stack, above what    *)
(* the redo stack held; symmetrically, when redo(steps) returns after the  *)
(* execute() of the j-th popped command threw and no snapshot was applied, *)
(* each of the j-1 commands executed earlier in the call is on the undo    *)
(* stack.                                                                  *)
(***************************************************************************)
ExecuteThrows(c) ==
    \E i \in 1..Len(LeafSeq(<<c>>)) : ThrowsOnExecute(LeafSeq(<<c>>)[i])

\* the first pop of redo(steps) whose execute() throws, 0 if none does
FailingRedoPop(steps) ==
    LET S == {j \in 1..Len(RedoBatch(steps)) : ExecuteThrows(RedoBatch(steps)[j])}
    IN  IF S = {} THEN 0 ELSE CHOOSE j \in S : \A o \in S : j <= o

\* every command of cmds is an entry of stack, which has grown by at least
\* their number
KeptOn(cmds, stack, before) ==
    /\ \A i \in 1..Len(cmds) : \E k \in 1..Len(stack) : stack[k] = cmds[i]
    /\ Len(stack) >= Len(before) + Len(cmds)

C30_UndoKeepsUndone ==
    Idle => \A steps \in 1..MaxCmds :
        LET j == FailingPop(steps)
        IN  (j >= 2 /\ NoSnapshotUpTo(Len(undoStack) - j)) =>
                LET r == undo(Fresh(this), steps)
                IN  KeptOn(SubSeq(UndoBatch(steps), Len(UndoBatch(steps)) - j + 2,
                                  Len(UndoBatch(steps))),
                           r.eng.redoStack, redoStack)

C30_RedoKeepsRedone ==
    Idle => \A steps \in 1..MaxCmds :
        LET j == FailingRedoPop(steps)
        IN  (j >= 2 /\ NoSnapshotUpTo(Len(undoStack))) =>
                LET r == redo(Fresh(this), steps)
                IN  KeptOn(SubSeq(RedoBatch(steps), 1, j - 1),
                           r.eng.undoStack, undoStack)

C30_AsStated == C30_UndoKeepsUndone /\ C30_RedoKeepsRedone

(***************************************************************************)
(* C31, as stated: whenever a failed undo applies a snapshot, the undo     *)
(* stack after the recovery is a prefix, by kind and position, of the undo *)
(* stack as it was before the undo call.                                   *)
(***************************************************************************)
IsPrefixByKind(s, t) ==
    /\ Len(s) <= Len(t)
    /\ \A i \in 1..Len(s) : serialize(s[i]).type = serialize(t[i]).type

\* the snapshot that the recovery of a failed undo(steps) applies exists and
\* deserializes
FailedUndoAppliesSnapshot(steps) ==
    /\ Idle
    /\ FailingPop(steps) > 0
    /\ ~NoSnapshotUpTo(Len(undoStack) - FailingPop(steps))
    /\ ~undo(Fresh(this), steps).thrown

C31_AsStated ==
    \A steps \in 1..MaxSteps :
        FailedUndoAppliesSnapshot(steps) =>
            IsPrefixByKind(undo(Fresh(this), steps).eng.undoStack, undoStack)

\* a failed undo applies a snapshot that is a prefix of the history
C31_PrefixReached ==
    /\ FailedUndoAppliesSnapshot(1)
    /\ undo(Fresh(this), 1).eng.undoStack # <<>>
    /\ IsPrefixByKind(undo(Fresh(this), 1).eng.undoStack, undoStack)

\* the same on new Oops({maxStackSize: 3, snapshotInterval: 2}) after
\* execute(A1), execute(A2), execute(A3), execute(Y1): the entry evicted by
\* the fourth execute is not in the history that undo() fails on
EvictedHistory ==
    RunExecute([New([maxStackSize |-> 3, snapshotInterval |-> 2,
                     compressThreshold |-> Null, mergeWindow |-> Null])
                  EXCEPT !.commandFactories = Registered],
               <<Leaf("A", 1), Leaf("A", 2), Leaf("A", 3), Leaf("Y", 1)>>, Epoch)

C31_EvictedEntryStaysOut ==
    LET r == undo(Fresh(EvictedHistory), 1)
    IN  \A i \in 1..Len(r.eng.undoStack) :
            \E k \in 1..Len(EvictedHistory.undoStack) :
                EvictedHistory.undoStack[k] = r.eng.undoStack[i]

(***************************************************************************)
(* C32, as stated: commitTransaction never drops a command.  Whether it is *)
(* called from outside or while an execute, undo or redo is in progress    *)
(* (isExecuting is true), every command of the group it pops either has    *)
(* its execute() called during the call or is appended, alone or inside a  *)
(* CompositeCommand, to the enclosing group.                               *)
(***************************************************************************)
\* the instance as a command or a listener finds it during an operation
InProgress == [Fresh(this) EXCEPT !.isExecuting = TRUE]

\* the group that a commit pops has been run, or handed to the enclosing group
RunOrHandedOver(r, before) ==
    LET group == Last(before)
        outer == Front(before)
        command == IF Len(group) = 1 THEN group[1] ELSE CompositeCommand(group)
    IN  \/ group = <<>>
        \/ Executed(r) = LeafSeq(group)
        \/ /\ outer # <<>>
           /\ r.eng.transactionStack =
                  [outer EXCEPT ![Len(outer)] = Append(@, command)]

C32_AsStated ==
    transactionStack # <<>> =>
        /\ RunOrHandedOver(commitTransaction(Fresh(this), now), transactionStack)
        /\ RunOrHandedOver(commitTransaction(InProgress, now), transactionStack)

\* the same for the calls made from outside any operation only
C32_FromOutside ==
    (Idle /\ transactionStack # <<>> /\ NoThrow(Submitted(transactionStack))) =>
        RunOrHandedOver(commitTransaction(Fresh(this), now), transactionStack)

\* undo() runs a command whose undo() calls commitTransaction while a group
\* of commands is open: the group is popped, none of its commands is run and
\* the transaction stack is left empty
C32_DroppedReached ==
    /\ Idle /\ undoStack # <<>>
    /\ Last(undoStack) = Leaf("R", 4)
    /\ Len(transactionStack) = 1 /\ transactionStack[1] # <<>>
    /\ LET r == undo(Fresh(this), 1)
       IN  /\ 4 \in NestedOps(r)
           /\ Executed(r) = <<>>
           /\ r.eng.transactionStack = <<>>
           /\ r.eng.undoStack = Front(undoStack)

(***************************************************************************)
(* C33, as stated: a history whose undo stack holds a CompositeCommand can *)
(* be snapshotted and recovered, and exported and imported again, whenever *)
(* a factory is registered for the kind of every leaf command: neither     *)
(* recoverFromSnapshot nor importState throws, and undo() on the restored  *)
(* history still undoes every sub-command of the composite entry.          *)
(***************************************************************************)
LeafKindsRegistered(cmds) ==
    \A i \in 1..Len(LeafSeq(cmds)) : LeafSeq(cmds)[i].type \in commandFactories

\* the history has a composite entry on top and every leaf kind is registered
CompositeOnTop ==
    /\ Idle /\ transactionStack = <<>>
    /\ undoStack # <<>> /\ IsComposite(Last(undoStack))
    /\ LeafKindsRegistered(undoStack) /\ LeafKindsRegistered(redoStack)
    /\ NoThrow(undoStack)

\* undo() on the restored history undoes the sub-commands of the top entry
UndoesAllOf(r, c) ==
    /\ ~r.thrown
    /\ Undone(undo(Fresh(r.eng), 1)) = Reverse(LeafSeq(<<c>>))

C33_AsStated ==
    CompositeOnTop =>
        /\ UndoesAllOf(importState(Fresh(this), exportState(this)), Last(undoStack))
        /\ UndoesAllOf(recoverFromSnapshot(createSnapshot(Fresh(this))), Last(undoStack))

\* each half on its own
C33_ImportHalf ==
    CompositeOnTop =>
        ~importState(Fresh(this), exportState(this)).thrown

C33_RecoverHalf ==
    CompositeOnTop =>
        ~recoverFromSnapshot(createSnapshot(Fresh(this))).thrown

\* without a composite entry both round trips succeed
C33_LeavesOnly ==
    (Idle /\ transactionStack = <<>> /\ undoStack # <<>>
          /\ LeafSeq(undoStack) = undoStack /\ LeafSeq(redoStack) = redoStack
          /\ LeafKindsRegistered(undoStack) /\ LeafKindsRegistered(redoStack)
          /\ NoThrow(undoStack)) =>
        /\ UndoesAllOf(importState(Fresh(this), exportState(this)), Last(undoStack))
        /\ UndoesAllOf(recoverFromSnapshot(createSnapshot(Fresh(this))), Last(undoStack))

(***************************************************************************)
(* C34, as stated: the guard gives mutual exclusion of execute, undo and   *)
(* redo.  During a call of execute, undo or redo that is past its guard    *)
(* (commitTransaction included, which runs its group through execute), no  *)
(* call of execute, undo or redo made by a command or a listener gets past *)
(* the guard, whatever other public methods commands and listeners call;   *)
(* and the guard is reset whenever no call is in progress.                 *)
(***************************************************************************)
NestedCalls(r) == SelectSeq(r.eng.calls, IsNestedCall)

\* a nested call of execute, undo or redo that found the guard reset and
\* acted on the instance
SecondActivation(ev) == ev.op \in 1..3 /\ ~ev.busy /\ ev.changed

MutualExclusion(r) ==
    \A j \in 1..Len(NestedCalls(r)) : ~SecondActivation(NestedCalls(r)[j])

C34_AsStated ==
    /\ Idle
    /\ \A r \in PublicCalls : MutualExclusion(r)

\* the second half alone: the guard is reset between calls
C34_IdleBetweenCalls == Idle

\* the first half for the calls during which no command imports a state
ImportedInside(r) == \E j \in 1..Len(NestedCalls(r)) : NestedCalls(r)[j].op = 5

C34_WithoutNestedImport ==
    Idle => \A r \in PublicCalls : ~ImportedInside(r) => MutualExclusion(r)

\* commands call commitTransaction, clear, recoverFromSnapshot,
\* beginTransaction and abortTransaction during a call in which no state is
\* imported, and the listener calls undo
C34_OthersReached ==
    /\ Idle
    /\ \A i \in {2, 4, 6, 7, 8, 9} :
           \E r \in PublicCalls :
               /\ ~ImportedInside(r)
               /\ \E j \in 1..Len(NestedCalls(r)) : NestedCalls(r)[j].op = i

\* a command's execute() imports a state during execute; importState resets
\* the guard and notifies the listener, whose undo() then runs a command
C34_SecondActivationReached ==
    /\ Idle /\ undoStack # <<>> /\ transactionStack = <<>>
    /\ LET r == execute(Fresh(this), [cmd |-> Leaf("R", 5)], FALSE, TRUE, now)
       IN  /\ \E j \in 1..Len(NestedCalls(r)) :
                  /\ NestedCalls(r)[j].op = 2
                  /\ SecondActivation(NestedCalls(r)[j])
           /\ Undone(r) # <<>>
=============================================================================
